---- MODULE Spec2Model ----
(***************************************************************************)
(* A model of pacm, a cache-first package manager: the install             *)
(* orchestrator (cmd_install), cmd_remove, the lockfile helpers, the       *)
(* tarball cache (ensure_cached_package) and the CAS store (ensure_entry). *)
(*                                                                         *)
(* The specifications of the module:                                       *)
(*   Spec             one project driven by install / remove commands,     *)
(*   SpecStore        two producers running CasStore::ensure_entry,        *)
(*   SpecCache        two producers running ensure_cached_package,         *)
(*   SpecEntry, SpecDownload, SpecCodec, SpecFingerprint, SpecPlatform,    *)
(*   SpecSync, SpecResolver, SpecWire, SpecMinor                           *)
(*                    one function applied to drawn inputs,                *)
(*   SpecInstaller    the parallel tasks of Installer::install,            *)
(*   SpecTraversal    the traversal loop over packages with two versions,  *)
(*   SpecLoop         the queue discipline of the traversal loop on drawn  *)
(*                    dependency graphs (SpecLoopLive: with its fairness), *)
(*   SpecMaterialize  Installer::materialize on one destination.           *)
(***************************************************************************)
EXTENDS Integers, Sequences, FiniteSets, TLC

None == "none"
\* an absent digest, store key or hash (values of these kinds are tuples)
NoneT == << >>

(***************************************************************************)
(* Bounds of the model.                                                    *)
(***************************************************************************)
MaxCmds == 3
MaxClock == 1
MaxCrashes == 1

(***************************************************************************)
(* The package universe.  Every name has one published version; a range    *)
(* written for a name matches that version.                                *)
(***************************************************************************)
NameOrder == <<"a", "b", "c", "o", "w">>
Names == {NameOrder[i] : i \in 1..Len(NameOrder)}
\* the names the registry publishes; "w" is a workspace member of the project
RegistryNames == Names \ {"w"}
Ver(n) == "1.0.0"
ManifestVersion == "0.1.0"

HostOs == "linux"
HostCpu == "x64"

\* package.json of each package, as published and as extracted
PkgDeps(n) == IF n = "a" THEN {"c"} ELSE {}
PkgOpt(n) == IF n = "b" THEN {"o"} ELSE {}
PkgPeer(w, n) == IF n = "b" \/ (n = "o" /\ w.opeer) THEN {"c"} ELSE {}
PkgPeerOpt(n) == IF n = "b" THEN {"c"} ELSE {}
BlockHostOs == << <<"!", HostOs>> >>

\* sha512 digest of the tarball bytes the registry serves for n
Digest(n) == <<"sha512", n>>
BogusDigest == <<"sha512", "bogus">>

(***************************************************************************)
(* platform_supported: each list is evaluated on its own against the host. *)
(* An entry of a list is a string, kept as the sequence of its pieces:     *)
(* <<"!", "linux">> is "!linux", <<"linux">> is "linux", << >> is "".      *)
(***************************************************************************)
strip_prefix(e) == IF Len(e) > 0 /\ e[1] = "!" THEN <<Tail(e)>> ELSE NoneT

\* the loop over one list: allowed is None, Some(false) or Some(true)
RECURSIVE ListLoop(_, _, _, _, _)
ListLoop(list, host, i, allowed, blocked) ==
  IF i > Len(list)
  THEN (~blocked) /\ (IF allowed = NoneT THEN TRUE ELSE allowed[1])
  ELSE IF strip_prefix(list[i]) # NoneT
       THEN ListLoop(list, host, i + 1, allowed,
                     blocked \/ strip_prefix(list[i])[1] = <<host>>)
       ELSE ListLoop(list, host, i + 1,
                     IF list[i] = <<host>> THEN <<TRUE>>
                     ELSE IF allowed = NoneT THEN <<FALSE>> ELSE allowed,
                     blocked)

\* a variant whose allowed defaults to false
ListAccepts_default_false(list, host) ==
  IF Len(list) = 0 THEN TRUE
  ELSE /\ ListLoop(list, host, 1, NoneT, FALSE)
       /\ \E i \in 1..Len(list) : strip_prefix(list[i]) = NoneT

ListAccepts(list, host) ==
  IF Len(list) = 0 THEN TRUE
  ELSE ListLoop(list, host, 1, NoneT, FALSE)

platform_supported(os_list, cpu_list) ==
  ListAccepts(os_list, HostOs) /\ ListAccepts(cpu_list, HostCpu)

(***************************************************************************)
(* Lockfile: a map from keys to entries.  The root key is the empty        *)
(* string; a package key is "node_modules/<name>".                         *)
(***************************************************************************)
RootKey == <<>>
Key(n) == <<"node_modules", n>>
IsPkgKey(k) == Len(k) = 2 /\ k[1] = "node_modules"
StripPrefix(k) == k[2]

EmptyEntry ==
  [version |-> None, integrity |-> NoneT, dependencies |-> {},
   dev_dependencies |-> {}, optional_dependencies |-> {},
   peer_dependencies |-> {}, peer_optional |-> {},
   os |-> <<>>, cpu_arch |-> <<>>,
   store_key |-> NoneT, content_hash |-> NoneT, link_mode |-> None]

DefaultLock == << >>

Has(lk, k) == k \in DOMAIN lk

Put(lk, k, e) == [x \in (DOMAIN lk) \cup {k} |-> IF x = k THEN e ELSE lk[x]]

Drop(lk, ks) == [x \in (DOMAIN lk) \ ks |-> lk[x]]

ensure_lock_entry(lk, n) == IF Has(lk, Key(n)) THEN lk ELSE Put(lk, Key(n), EmptyEntry)

write_lock_entry(lk, n, version, integrity, deps, dev, opt, peer, peerOpt, os, cpu) ==
  Put(lk, Key(n),
      [version |-> version, integrity |-> integrity, dependencies |-> deps,
       dev_dependencies |-> dev, optional_dependencies |-> opt,
       peer_dependencies |-> peer, peer_optional |-> peerOpt,
       os |-> os, cpu_arch |-> cpu,
       store_key |-> NoneT, content_hash |-> NoneT, link_mode |-> None])

RECURSIVE EnsureAll(_, _)
EnsureAll(lk, ns) ==
  IF ns = {} THEN lk
  ELSE LET n == CHOOSE x \in ns : TRUE
       IN EnsureAll(ensure_lock_entry(lk, n), ns \ {n})

\* a variant that also ensures an entry for each peer dependency
sync_from_manifest_with_peers(lk, m) ==
  LET root0 == IF Has(lk, RootKey) THEN lk[RootKey] ELSE EmptyEntry
      root == [root0 EXCEPT !.version = m.version,
                            !.dependencies = m.dependencies,
                            !.dev_dependencies = m.dev_dependencies,
                            !.optional_dependencies = m.optional_dependencies,
                            !.peer_dependencies = m.peer_dependencies,
                            !.peer_optional = {}]
      declared == m.dependencies \cup m.dev_dependencies
                    \cup m.optional_dependencies \cup m.peer_dependencies
  IN EnsureAll(Put(lk, RootKey, root), declared)

sync_from_manifest(lk, m) ==
  LET root0 == IF Has(lk, RootKey) THEN lk[RootKey] ELSE EmptyEntry
      root == [root0 EXCEPT !.version = m.version,
                            !.dependencies = m.dependencies,
                            !.dev_dependencies = m.dev_dependencies,
                            !.optional_dependencies = m.optional_dependencies,
                            !.peer_dependencies = m.peer_dependencies,
                            !.peer_optional = {}]
      declared == m.dependencies \cup m.dev_dependencies \cup m.optional_dependencies
  IN EnsureAll(Put(lk, RootKey, root), declared)

RootDeclared(lk) ==
  IF Has(lk, RootKey)
  THEN lk[RootKey].dependencies \cup lk[RootKey].dev_dependencies
         \cup lk[RootKey].optional_dependencies
  ELSE {}

(***************************************************************************)
(* Pruning (prune.rs).                                                     *)
(***************************************************************************)
prune_removed_from_lock(lk, removed) == Drop(lk, {Key(n) : n \in removed})

enqueue_root(e) ==
  e.dependencies \cup e.dev_dependencies \cup e.optional_dependencies
    \cup (e.peer_dependencies \ e.peer_optional)

enqueue_entry(e) ==
  e.dependencies \cup e.optional_dependencies
    \cup (e.peer_dependencies \ e.peer_optional)

RECURSIVE Reach(_, _, _)
Reach(lk, frontier, reachable) ==
  IF frontier = {} THEN reachable
  ELSE LET n == CHOOSE x \in frontier : TRUE
           next == IF Has(lk, Key(n)) THEN enqueue_entry(lk[Key(n)]) ELSE {}
       IN Reach(lk, (frontier \cup next) \ (reachable \cup {n}), reachable \cup {n})

PruneRemovedNames(lk) ==
  LET start == IF Has(lk, RootKey) THEN enqueue_root(lk[RootKey]) ELSE {}
      reachable == Reach(lk, start, {})
  IN {StripPrefix(k) : k \in {x \in DOMAIN lk : IsPkgKey(x) /\ StripPrefix(x) \notin reachable}}

\* a pruning that drops the keys no entry refers to and follows no edges
prune_unreachable_referenced_only(lk) ==
  LET removed == {n \in PruneRemovedNames(lk) :
                    \A k \in DOMAIN lk :
                      n \notin (lk[k].dependencies \cup lk[k].optional_dependencies)}
  IN [lock |-> Drop(lk, {Key(n) : n \in removed}), removed |-> removed]

prune_unreachable(lk) ==
  LET removed == PruneRemovedNames(lk)
  IN [lock |-> Drop(lk, {Key(n) : n \in removed}), removed |-> removed]

lockfile_has_no_packages(lk) ==
  IF Has(lk, RootKey)
  THEN /\ Cardinality(DOMAIN lk) = 1
       /\ lk[RootKey].dependencies = {}
       /\ lk[RootKey].dev_dependencies = {}
       /\ lk[RootKey].optional_dependencies = {}
       /\ lk[RootKey].peer_dependencies = {}
  ELSE DOMAIN lk = {}

(***************************************************************************)
(* CAS store (cache/mod.rs): graph hash, store key, ensure_entry.          *)
(***************************************************************************)
NameIdx(n) == CHOOSE i \in 1..Len(NameOrder) : NameOrder[i] = n

SortedNames(S) == SelectSeq(NameOrder, LAMBDA n : n \in S)

\* items.sort_by(|a, b| a.name.cmp(b.name)): a stable insertion sort
RECURSIVE InsertByName(_, _)
InsertByName(sorted, d) ==
  IF Len(sorted) = 0 THEN <<d>>
  ELSE IF NameIdx(sorted[Len(sorted)].name) <= NameIdx(d.name)
       THEN Append(sorted, d)
       ELSE Append(InsertByName(SubSeq(sorted, 1, Len(sorted) - 1), d), sorted[Len(sorted)])

RECURSIVE SortByName(_)
SortByName(deps) ==
  IF Len(deps) = 0 THEN <<>>
  ELSE InsertByName(SortByName(SubSeq(deps, 1, Len(deps) - 1)), deps[Len(deps)])

\* the digest stands for sha256 over the serialized sorted items
GraphHashOf(deps) == <<"sha256", SortByName(deps)>>

StoreKeyOf(name, version, graph_hash) == <<name, version, graph_hash>>

compute_graph_hash(name, version, deps) ==
  [graph_hash |-> GraphHashOf(deps),
   store_key |-> StoreKeyOf(name, version, GraphHashOf(deps))]

\* the extracted tree of a package in the tarball cache, and its content hash
TreeOf(n) == <<"tree", n, Ver(n)>>
ContentHashOf(tree) == <<"sha256", tree>>
store_dir_for(key) == <<"packages", key[1], key[2], key[3]>>

\* an ensure_entry that stages and publishes even when metadata.json is there
ensure_entry_overwriting(st, name, version, deps, source, integrity) ==
  LET gh == compute_graph_hash(name, version, deps)
      dir == store_dir_for(gh.store_key)
      meta == [store_key |-> gh.store_key, name |-> name, version |-> version,
               graph_hash |-> gh.graph_hash,
               content_hash |-> ContentHashOf(source),
               integrity |-> integrity, dependencies |-> deps,
               tree |-> source, root_dir |-> dir]
  IN [store |-> [d \in (DOMAIN st) \cup {dir} |-> IF d = dir THEN meta ELSE st[d]],
      entry |-> meta]

\* ensure_entry run to completion by a single producer
ensure_entry(st, name, version, deps, source, integrity) ==
  LET gh == compute_graph_hash(name, version, deps)
      dir == store_dir_for(gh.store_key)
  IN IF dir \in DOMAIN st
     THEN [store |-> st, entry |-> st[dir]]
     ELSE LET meta == [store_key |-> gh.store_key, name |-> name, version |-> version,
                       graph_hash |-> gh.graph_hash,
                       content_hash |-> ContentHashOf(source),
                       integrity |-> integrity, dependencies |-> deps,
                       tree |-> source, root_dir |-> dir]
          IN [store |-> [d \in (DOMAIN st) \cup {dir} |-> IF d = dir THEN meta ELSE st[d]],
              entry |-> meta]

\* load_entry returns Some exactly when metadata exists under the key's directory
entry_loadable(st, key) == key # NoneT /\ store_dir_for(key) \in DOMAIN st
load_entry(st, key) == st[store_dir_for(key)]

(***************************************************************************)
(* Store-plan construction (install_command.rs).                           *)
(*   acc = [memo, visiting, store, err, entry]                             *)
(***************************************************************************)
RECURSIVE ensure_store_for_package(_, _, _, _)
RECURSIVE FingerprintDeps(_, _, _, _, _, _, _)

FingerprintDeps(lk, cached, parent, dep_names, i, acc, fps) ==
  IF i > Len(dep_names) \/ acc.err # None THEN [acc |-> acc, fps |-> fps]
  ELSE LET dep == dep_names[i]
       IN IF ~Has(lk, Key(dep)) \/ lk[Key(dep)].version = None
          THEN FingerprintDeps(lk, cached, parent, dep_names, i + 1, acc, fps)
          ELSE IF /\ dep \in lk[Key(parent)].optional_dependencies
                  /\ ~platform_supported(lk[Key(dep)].os, lk[Key(dep)].cpu_arch)
          THEN FingerprintDeps(lk, cached, parent, dep_names, i + 1, acc, fps)
          ELSE LET r == ensure_store_for_package(lk, cached, dep, acc)
               IN IF r.err # None
                  THEN [acc |-> r, fps |-> fps]
                  ELSE FingerprintDeps(lk, cached, parent, dep_names, i + 1, r,
                         Append(fps, [name |-> dep, version |-> lk[Key(dep)].version,
                                      store_key |-> r.entry.store_key]))

\* a lookup that never finds the memoized entry
Memoized_never(acc, name) == FALSE

\* memo.get(name), lines 1444-1446
Memoized(acc, name) == name \in DOMAIN acc.memo

ensure_store_for_package(lk, cached, name, acc) ==
  IF Memoized(acc, name) THEN [acc EXCEPT !.entry = acc.memo[name]]
  ELSE IF name \in acc.visiting THEN [acc EXCEPT !.err = "cyclic dependency"]
  ELSE IF ~Has(lk, Key(name)) THEN [acc EXCEPT !.err = "lockfile missing entry"]
  ELSE IF lk[Key(name)].version = None THEN [acc EXCEPT !.err = "lockfile missing version"]
  ELSE
    LET e == lk[Key(name)]
        dep_names == SortedNames(e.dependencies \cup e.dev_dependencies
                                   \cup e.optional_dependencies \cup e.peer_dependencies)
        r == FingerprintDeps(lk, cached, name, dep_names, 1,
                             [acc EXCEPT !.visiting = @ \cup {name}], <<>>)
    IN IF r.acc.err # None THEN r.acc
       ELSE IF name \notin cached
       THEN [r.acc EXCEPT !.err = "copy package contents"]
       ELSE LET res == ensure_entry(r.acc.store, name, e.version, r.fps, TreeOf(name), e.integrity)
            IN [memo |-> [x \in (DOMAIN r.acc.memo) \cup {name} |->
                            IF x = name THEN res.entry ELSE r.acc.memo[x]],
                visiting |-> r.acc.visiting \ {name},
                store |-> res.store,
                err |-> None,
                entry |-> res.entry,
                calls |-> Append(r.acc.calls, name)]

RECURSIVE StorePlanLoop(_, _, _, _, _)
StorePlanLoop(lk, cached, names, i, acc) ==
  IF i > Len(names) \/ acc.err # None THEN [lock |-> lk, acc |-> acc]
  ELSE LET r == ensure_store_for_package(lk, cached, names[i], acc)
       IN IF r.err # None THEN [lock |-> lk, acc |-> r]
          ELSE LET lk2 == IF Has(lk, Key(names[i]))
                          THEN [lk EXCEPT ![Key(names[i])].store_key = r.entry.store_key,
                                          ![Key(names[i])].content_hash = r.entry.content_hash,
                                          ![Key(names[i])].link_mode = None]
                          ELSE lk
               IN StorePlanLoop(lk2, cached, names, i + 1, r)

\* returns [lock, store, err, calls, plan]; plan maps instance names to store
\* entries, calls lists the names ensure_entry was called for, in call order
ensure_store_plan(st, lk, inst, cached) ==
  LET r == StorePlanLoop(lk, cached, SortedNames(inst), 1,
                         [memo |-> << >>, visiting |-> {}, store |-> st,
                          err |-> None, entry |-> None, calls |-> << >>])
  IN [lock |-> r.lock, store |-> r.acc.store, err |-> r.acc.err,
      calls |-> r.acc.calls,
      plan |-> [n \in inst \cap DOMAIN r.acc.memo |-> r.acc.memo[n]]]

\* returns [err, plan]
build_plan_from_lock(st, lk, inst) ==
  LET bad == {n \in inst : \/ ~Has(lk, Key(n))
                           \/ ~entry_loadable(st, lk[Key(n)].store_key)}
  IN IF bad # {} THEN [err |-> "plan", plan |-> << >>]
     ELSE [err |-> None, plan |-> [n \in inst |-> load_entry(st, lk[Key(n)].store_key)]]

\* build_fast_instances: [ok, needed]; ok = FALSE stands for None
RECURSIVE NeededClosure(_, _, _)
NeededClosure(lk, frontier, needed) ==
  IF frontier = {} THEN [ok |-> TRUE, needed |-> needed]
  ELSE LET n == CHOOSE x \in frontier : TRUE
       IN IF ~Has(lk, Key(n)) THEN [ok |-> FALSE, needed |-> {}]
          ELSE NeededClosure(lk, (frontier \cup (lk[Key(n)].dependencies \ needed)) \ {n},
                             needed \cup lk[Key(n)].dependencies)

\* build_fast_instances without the test of the integrity of an entry
build_fast_instances_any_integrity(m, lk, cached) ==
  LET roots == m.dependencies \cup m.dev_dependencies \cup m.optional_dependencies
      c == NeededClosure(lk, roots, roots)
  IN IF roots = {} THEN [ok |-> TRUE, needed |-> {}]
     ELSE IF ~c.ok THEN c
     ELSE IF \E n \in c.needed : \/ ~Has(lk, Key(n))
                                 \/ lk[Key(n)].version = None
                                 \/ n \notin cached
     THEN [ok |-> FALSE, needed |-> {}]
     ELSE c

build_fast_instances(m, lk, cached) ==
  LET roots == m.dependencies \cup m.dev_dependencies \cup m.optional_dependencies
      c == NeededClosure(lk, roots, roots)
  IN IF roots = {} THEN [ok |-> TRUE, needed |-> {}]
     ELSE IF ~c.ok THEN c
     ELSE IF \E n \in c.needed : \/ ~Has(lk, Key(n))
                                 \/ lk[Key(n)].version = None
                                 \/ lk[Key(n)].integrity = NoneT
                                 \/ n \notin cached
     THEN [ok |-> FALSE, needed |-> {}]
     ELSE c

(***************************************************************************)
(* The environment of one project: what the tarball cache holds when the   *)
(* first command starts, which registry integrity strings do not match the *)
(* tarball the registry serves, whether package "o" excludes the host in   *)
(* its os list, whether "o" declares the non-optional peer "c", whether    *)
(* the project has the workspace member "w", and whether a legacy          *)
(* pacm-lock.json is present.  Whether                                     *)
(* node_modules/.pacm exists is chosen by Init as well: nothing in the     *)
(* installer creates or removes it.                                        *)
(***************************************************************************)
Worlds ==
  { [cache0 |-> {}, hintBad |-> {}, nohint |-> {}, excl |-> TRUE, opeer |-> FALSE,
     ws |-> FALSE, wpeer |-> FALSE, legacy |-> TRUE, blocked |-> {}],
    [cache0 |-> RegistryNames, hintBad |-> {}, nohint |-> {}, excl |-> TRUE, opeer |-> FALSE,
     ws |-> FALSE, wpeer |-> FALSE, legacy |-> FALSE, blocked |-> {}],
    [cache0 |-> {}, hintBad |-> {"c"}, nohint |-> {}, excl |-> TRUE, opeer |-> FALSE,
     ws |-> FALSE, wpeer |-> FALSE, legacy |-> FALSE, blocked |-> {}],
    [cache0 |-> {"a", "c"}, hintBad |-> {"a", "o"}, nohint |-> {}, excl |-> FALSE,
     opeer |-> FALSE, ws |-> FALSE, wpeer |-> FALSE, legacy |-> FALSE, blocked |-> {}],
    [cache0 |-> {}, hintBad |-> {"c"}, nohint |-> {}, excl |-> FALSE, opeer |-> TRUE,
     ws |-> FALSE, wpeer |-> FALSE, legacy |-> FALSE, blocked |-> {}],
    [cache0 |-> {"c"}, hintBad |-> {}, nohint |-> {}, excl |-> FALSE, opeer |-> FALSE,
     ws |-> TRUE, wpeer |-> FALSE, legacy |-> FALSE, blocked |-> {}],
    [cache0 |-> {}, hintBad |-> {}, nohint |-> {"a", "o"}, excl |-> FALSE, opeer |-> FALSE,
     ws |-> FALSE, wpeer |-> FALSE, legacy |-> FALSE, blocked |-> {}],
    [cache0 |-> {"c"}, hintBad |-> {}, nohint |-> {}, excl |-> FALSE, opeer |-> FALSE,
     ws |-> TRUE, wpeer |-> TRUE, legacy |-> FALSE, blocked |-> {}],
    [cache0 |-> {"c"}, hintBad |-> {}, nohint |-> {}, excl |-> FALSE, opeer |-> FALSE,
     ws |-> FALSE, wpeer |-> FALSE, legacy |-> FALSE, blocked |-> {"a"}],
    [cache0 |-> {"c"}, hintBad |-> {}, nohint |-> {}, excl |-> FALSE, opeer |-> FALSE,
     ws |-> TRUE, wpeer |-> FALSE, legacy |-> FALSE, blocked |-> {"w"}] }

PkgOs(w, n) == IF (n = "o" /\ w.excl) \/ n \in w.blocked THEN BlockHostOs ELSE << >>
PkgCpu(w, n) == << >>

\* dist.integrity of the registry's version metadata
RegistryIntegrity(w, n) ==
  IF n \in w.nohint THEN NoneT
  ELSE IF n \in w.hintBad THEN BogusDigest ELSE Digest(n)

\* ranges: what a package or the manifest writes for a dependency, the
\* default of a bare command-line spec, and a dist-tag
DepRange == "^1.0.0"
StarRange == "*"
TagRange == "next"

Mk(deps, opt) ==
  [version |-> ManifestVersion, dependencies |-> deps, dev_dependencies |-> {},
   optional_dependencies |-> opt, peer_dependencies |-> {}]

Manifests == {Mk({}, {}), Mk({"a"}, {}), Mk({"a", "b"}, {}), Mk({"b"}, {"o"})}

\* discover_workspaces: the members found under the root's workspaces globs
WorkspaceNames(w) == IF w.ws THEN {"w"} ELSE {}
\* packages/w/package.json
WsVersion == "1.0.0"
WsRange == "workspace:1.0.0"
WsManifest ==
  [version |-> WsVersion, dependencies |-> {}, dev_dependencies |-> {"c"},
   optional_dependencies |-> {}, peer_dependencies |-> {}]

\* peerDependencies of packages/w/package.json, and the ones its
\* peerDependenciesMeta marks optional (Manifest has no field for the meta)
WsPeer(w) == IF w.wpeer THEN {"b"} ELSE {}
WsPeerOpt(w) == WsPeer(w)

\* the root manifests of a project with workspaces depend on the member
WsManifests == {Mk({"w"}, {}), Mk({"a", "w"}, {})}
ManifestsOf(w) == IF w.ws THEN WsManifests ELSE Manifests

SpecChoices ==
  { << >>, <<[name |-> "a", range |-> StarRange]>>, <<[name |-> "a", range |-> TagRange]>> }

\* pacm-lock.json as an older release left it: a root entry only
LegacyLock ==
  Put(DefaultLock, RootKey, [EmptyEntry EXCEPT !.version = ManifestVersion])

NoFile == [exists |-> FALSE, lock |-> DefaultLock]
File(lk) == [exists |-> TRUE, lock |-> lk]

EmptyModules == [exists |-> FALSE, dirs |-> {}]

(***************************************************************************)
(* Manifest updates (manifest_updates.rs, util.rs).                        *)
(***************************************************************************)
add_spec_with_version(m, name) == [m EXCEPT !.dependencies = @ \cup {name}]

RECURSIVE AddSpecs(_, _, _)
AddSpecs(m, specs, i) ==
  IF i > Len(specs) THEN m ELSE AddSpecs(add_spec_with_version(m, specs[i].name), specs, i + 1)

\* the manifest held in memory, and written to package.json, after the call
update_manifest_for_specs(specs, m) == IF Len(specs) = 0 THEN m ELSE AddSpecs(m, specs, 1)

(***************************************************************************)
(* node_modules helpers (prune.rs) and the no-op test's directory check.   *)
(***************************************************************************)
\* remove_dir_all on each existing directory; an emptied parent goes too
RECURSIVE remove_dirs(_, _, _)
remove_dirs(mods, names, fac) ==
  IF names = {} THEN mods
  ELSE LET n == CHOOSE x \in names : TRUE
           after == IF mods.exists /\ n \in mods.dirs
                    THEN IF mods.dirs = {n} /\ ~fac
                         THEN EmptyModules
                         ELSE [mods EXCEPT !.dirs = @ \ {n}]
                    ELSE mods
       IN remove_dirs(after, names \ {n}, fac)

cleanup_empty_node_modules_dir(mods, fac) ==
  IF mods.exists /\ mods.dirs = {} /\ ~fac THEN EmptyModules ELSE mods

\* every declared root and the facade directory are present
node_modules_intact(m, mods, fac) ==
  /\ mods.exists
  /\ fac
  /\ (m.dependencies \cup m.dev_dependencies \cup m.optional_dependencies) \subseteq mods.dirs

(***************************************************************************)
(* State.                                                                  *)
(***************************************************************************)
VARIABLES
  world,      \* the environment record, fixed by Init
  facade,     \* node_modules/.pacm exists
  manifest,   \* package.json
  lockDisk,   \* pacm.lockb: [exists, lock]
  legacy,     \* pacm-lock.json exists
  nm,         \* node_modules: [exists, dirs]
  cache,      \* names whose extracted tree is in the tarball cache
  store,      \* CAS store: canonical directory -> metadata
  pc,         \* position of the running command
  run,        \* locals of the running cmd_install
  last,       \* record of the command that finished last
  fresh,      \* the last command was a successful install, nothing changed since
  prevFull,   \* inputs and result of the full-path install before lastFull
  lastFull,   \* inputs and result of the latest successful full-path install
  ncmds,      \* commands and manifest edits so far
  sv,         \* state of SpecStore
  cv,         \* state of SpecCache
  pv          \* state of the specifications that apply one operation to drawn inputs

ivars == <<world, facade, manifest, lockDisk, legacy, nm, cache, store, pc, run,
           last, fresh, prevFull, lastFull, ncmds>>
vars == <<ivars, sv, cv, pv>>

IdleRun ==
  [specs |-> << >>, lock |-> DefaultLock, queue |-> << >>, visited |-> {},
   instances |-> {}, pending |-> << >>, dl |-> << >>, got |-> << >>, plan |-> << >>,
   order |-> << >>,
   done |-> {}, path |-> None,
   pre |-> [manifest |-> Mk({}, {}), lockDisk |-> NoFile, nm |-> EmptyModules],
   afterOk |-> FALSE, wroteLock |-> FALSE, nmTouched |-> FALSE,
   hinted |-> {}, verified |-> {}, cache0 |-> {}, store0 |-> << >>]

NoLast ==
  [kind |-> None, specs |-> << >>, status |-> None, path |-> None, err |-> None,
   pre |-> IdleRun.pre, post |-> IdleRun.pre, afterOk |-> FALSE, wroteLock |-> FALSE, nmTouched |-> FALSE,
   hinted |-> {}, verified |-> {}, installed |-> {}]

NoFull == [valid |-> FALSE, specs |-> << >>, manifest |-> Mk({}, {}), cache |-> {},
           store |-> << >>, lock |-> DefaultLock, order |-> << >>]

Init ==
  /\ world \in Worlds
  /\ facade \in BOOLEAN
  /\ manifest \in ManifestsOf(world)
  /\ lockDisk = NoFile
  /\ legacy = world.legacy
  /\ nm = [exists |-> facade, dirs |-> {}]
  /\ cache = world.cache0
  /\ store = << >>
  /\ pc = "idle"
  /\ run = IdleRun
  /\ last = NoLast
  /\ fresh = FALSE
  /\ prevFull = NoFull
  /\ lastFull = NoFull
  /\ ncmds = 0

Snapshot(m, disk, mods) == [manifest |-> m, lockDisk |-> disk, nm |-> mods]

Complete(r, status, err, post) ==
  [kind |-> "install", specs |-> r.specs, status |-> status, path |-> r.path,
   err |-> err, pre |-> r.pre, post |-> post, afterOk |-> r.afterOk, wroteLock |-> r.wroteLock,
   nmTouched |-> r.nmTouched, hinted |-> r.hinted, verified |-> r.verified,
   installed |-> r.instances]

TaskSeq(S, range, flag) ==
  [i \in 1..Len(SortedNames(S)) |->
     [name |-> SortedNames(S)[i], range |-> range, optional_root |-> flag]]

\* the tasks of the workspace members and of what their manifests declare
WorkspaceSeed(wsnames) ==
  IF wsnames = {} THEN << >>
  ELSE TaskSeq(wsnames, WsRange, FALSE)
         \o TaskSeq(WsManifest.dependencies, DepRange, FALSE)
         \o TaskSeq(WsManifest.dev_dependencies, DepRange, FALSE)
         \o TaskSeq(WsManifest.optional_dependencies, DepRange, TRUE)

\* the seeds with the optionalDependencies ahead of the other sections
SeedQueue_optional_first(specs, m, wsnames) ==
  WorkspaceSeed(wsnames) \o
  (IF Len(specs) = 0
   THEN TaskSeq(m.optional_dependencies, DepRange, TRUE)
          \o TaskSeq(m.dependencies, DepRange, FALSE)
          \o TaskSeq(m.dev_dependencies, DepRange, FALSE)
   ELSE [i \in 1..Len(specs) |->
           [name |-> specs[i].name, range |-> specs[i].range, optional_root |-> FALSE]])

\* the traversal queue as seeded from the workspace members and from the
\* manifest or the specs
SeedQueue(specs, m, wsnames) ==
  WorkspaceSeed(wsnames) \o
  (IF Len(specs) = 0
   THEN TaskSeq(m.dependencies, DepRange, FALSE) \o TaskSeq(m.dev_dependencies, DepRange, FALSE)
          \o TaskSeq(m.optional_dependencies, DepRange, TRUE)
   ELSE [i \in 1..Len(specs) |->
           [name |-> specs[i].name, range |-> specs[i].range, optional_root |-> FALSE]])

(***************************************************************************)
(* cmd_install, from its start to the choice of the no-op, fast or full    *)
(* path.                                                                   *)
(***************************************************************************)
InstallBegin(specs, link_and_copy) ==
  /\ pc = "idle"
  /\ ncmds < MaxCmds
  /\ LET m1 == update_manifest_for_specs(specs, manifest)
         migrate == ~lockDisk.exists /\ legacy
         lock0 == IF lockDisk.exists THEN lockDisk.lock
                  ELSE IF legacy THEN LegacyLock ELSE DefaultLock
         lock1 == sync_from_manifest(lock0, m1)
         added_root == RootDeclared(lock1) \ RootDeclared(lock0)
         removed_root == RootDeclared(lock0) \ RootDeclared(lock1)
         r0 == [IdleRun EXCEPT !.specs = specs,
                               !.pre = Snapshot(manifest, lockDisk, nm),
                               !.afterOk = fresh,
                               !.wroteLock = migrate,
                               !.cache0 = cache,
                               !.store0 = store,
                               !.lock = lock1]
         fi == build_fast_instances(m1, lock1, cache)
         tryFast == Len(specs) = 0 /\ added_root = {} /\ fi.ok
         pruned == IF removed_root # {}
                   THEN prune_unreachable(prune_removed_from_lock(lock1, removed_root))
                   ELSE [lock |-> lock1, removed |-> {}]
         prunedNm == IF removed_root # {}
                     THEN remove_dirs(remove_dirs(nm, removed_root, facade), pruned.removed, facade)
                     ELSE nm
         bp == build_plan_from_lock(store, pruned.lock, fi.needed)
         queue == SeedQueue(specs, m1, WorkspaceNames(world))
         disk1 == IF migrate THEN File(LegacyLock) ELSE lockDisk
     IN /\ manifest' = m1
        /\ lockDisk' = disk1
        /\ ncmds' = ncmds + 1
        /\ IF link_and_copy
           THEN /\ pc' = "idle"
                /\ run' = IdleRun
                /\ last' = Complete([r0 EXCEPT !.path = "none"], "err", "flags",
                                 Snapshot(m1, disk1, nm))
                /\ fresh' = FALSE
                /\ nm' = nm
           ELSE IF /\ lock1 = lock0
                   /\ added_root = {}
                   /\ removed_root = {}
                   /\ node_modules_intact(m1, nm, facade)
           THEN /\ pc' = "idle"
                /\ run' = IdleRun
                /\ last' = Complete([r0 EXCEPT !.path = "noop"], "ok", None,
                                 Snapshot(m1, disk1, nm))
                /\ fresh' = TRUE
                /\ nm' = nm
           ELSE IF tryFast /\ bp.err = None
           THEN /\ pc' = "materialize"
                /\ run' = [r0 EXCEPT !.path = "fast", !.lock = pruned.lock,
                                     !.instances = fi.needed, !.plan = bp.plan,
                                     !.nmTouched = (prunedNm.dirs # nm.dirs)]
                /\ nm' = [prunedNm EXCEPT !.exists = TRUE]
                /\ UNCHANGED <<last, fresh>>
           ELSE /\ pc' = IF Len(queue) = 0 THEN "download" ELSE "traverse"
                /\ run' = [r0 EXCEPT !.path = "full", !.queue = queue,
                                     !.lock = IF tryFast THEN pruned.lock ELSE lock1,
                                     !.nmTouched = tryFast /\ prunedNm.dirs # nm.dirs]
                /\ nm' = IF tryFast THEN prunedNm ELSE nm
                /\ UNCHANGED <<last, fresh>>
  /\ UNCHANGED <<world, facade, legacy, cache, store, prevFull, lastFull, sv, cv, pv>>

Abort(r, err, mods) ==
  /\ pc' = "idle"
  /\ run' = IdleRun
  /\ last' = Complete(r, "err", err, Snapshot(manifest, lockDisk, mods))
  /\ fresh' = FALSE

\* ensure_cached_package run to completion by a single producer:
\* [ok, cache, integrity]
ensure_cached_package_whole(cached, n, digest, hint) ==
  IF hint # NoneT /\ hint[1] = "sha512" /\ hint # digest
  THEN [ok |-> FALSE, cache |-> cached, integrity |-> NoneT]
  ELSE [ok |-> TRUE, cache |-> cached \cup {n},
        integrity |-> IF hint # NoneT THEN hint ELSE digest]

\* download_into_cache: the registry serves the tarball whose digest is Digest(n)
download_into_cache(cached, n, hint) == ensure_cached_package_whole(cached, n, Digest(n), hint)

(***************************************************************************)
(* One iteration of the traversal loop (workspace members and registry     *)
(* specifiers).  Every range the model writes for the member "w" matches   *)
(* its version; the os list of "w" is that of the world.                   *)
(***************************************************************************)
Traverse ==
  /\ pc = "traverse"
  /\ Len(run.queue) > 0
  /\ LET t == Head(run.queue)
         rest == Tail(run.queue)
         name == t.name
         is_tag_spec == t.range = TagRange
         from_cache == ~is_tag_spec /\ name \in cache
         integrity_owned == IF from_cache THEN NoneT ELSE RegistryIntegrity(world, name)
         dep_map == PkgDeps(name)
         opt_map == IF from_cache
                    THEN {n \in PkgOpt(name) :
                            ~ (/\ Has(run.lock, Key(n))
                               /\ run.lock[Key(n)].version # None
                               /\ n \in cache
                               /\ ~platform_supported(PkgOs(world, n), PkgCpu(world, n)))}
                    ELSE PkgOpt(name)
         peer_map == PkgPeer(world, name)
         peer_meta_map == PkgPeerOpt(name)
         package_os == PkgOs(world, name)
         package_cpu == PkgCpu(world, name)
         platform_ok == platform_supported(package_os, package_cpu)
         cached == name \in cache
         entry(integ) == write_lock_entry(run.lock, name, Ver(name), integ, dep_map, {},
                                          opt_map, peer_map, peer_meta_map,
                                          package_os, package_cpu)
         to_enqueue == TaskSeq(dep_map, DepRange, t.optional_root)
                         \o TaskSeq(opt_map, DepRange, TRUE)
                         \o TaskSeq(peer_map \ peer_meta_map, DepRange, FALSE)
         dl == download_into_cache(cache, name, integrity_owned)
         hinted == IF integrity_owned # NoneT THEN run.hinted \cup {name} ELSE run.hinted
         skip == [run EXCEPT !.queue = rest]
         recorded(integ) == [run EXCEPT !.queue = rest \o to_enqueue,
                                        !.lock = entry(integ),
                                        !.instances = @ \cup {name},
                                        !.visited = @ \cup {name},
                                        !.hinted = hinted]
         ws_entry == write_lock_entry(run.lock, name, WsVersion, NoneT,
                                      WsManifest.dependencies, WsManifest.dev_dependencies,
                                      WsManifest.optional_dependencies,
                                      WsPeer(world), {}, package_os, package_cpu)
         ws_enqueue == TaskSeq(WsManifest.dependencies, DepRange, FALSE)
                         \o TaskSeq(WsManifest.dev_dependencies, DepRange, FALSE)
                         \o TaskSeq(WsManifest.optional_dependencies, DepRange, TRUE)
                         \o TaskSeq(WsPeer(world), DepRange, FALSE)
         next == IF name \in run.visited THEN [r |-> skip, c |-> cache]
                 ELSE IF name \in WorkspaceNames(world) /\ ~platform_ok
                 THEN [r |-> [skip EXCEPT !.lock = ws_entry, !.visited = @ \cup {name}],
                       c |-> cache]
                 ELSE IF name \in WorkspaceNames(world)
                 THEN [r |-> [run EXCEPT !.queue = rest \o ws_enqueue,
                                         !.lock = ws_entry,
                                         !.instances = @ \cup {name},
                                         !.visited = @ \cup {name}],
                       c |-> cache]
                 ELSE IF ~platform_ok /\ t.optional_root
                 THEN [r |-> [skip EXCEPT !.lock = entry(integrity_owned),
                                          !.visited = @ \cup {name}],
                       c |-> cache]
                 ELSE IF cached THEN [r |-> recorded(integrity_owned), c |-> cache]
                 ELSE IF t.optional_root
                 THEN IF dl.ok
                      THEN [r |-> [recorded(dl.integrity) EXCEPT !.verified = @ \cup {name}],
                            c |-> dl.cache]
                      ELSE [r |-> skip, c |-> cache]
                 ELSE [r |-> [recorded(integrity_owned) EXCEPT
                                !.pending = Append(@, [name |-> name,
                                                       integrity_hint |-> integrity_owned]),
                                !.dl = [x \in (DOMAIN @) \cup {name} |->
                                          IF x = name THEN "todo" ELSE @[x]]],
                       c |-> cache]
         \* bail!("workspace ... is not supported on this platform")
         unsupported_workspace == /\ name \notin run.visited
                                  /\ name \in WorkspaceNames(world)
                                  /\ ~platform_ok
                                  /\ ~t.optional_root
     IN IF unsupported_workspace
        THEN /\ Abort(run, "platform", nm)
             /\ cache' = cache
        ELSE /\ run' = [next.r EXCEPT !.order = IF name \in next.r.instances \ run.instances
                                                   THEN Append(@, name) ELSE @]
             /\ cache' = next.c
             /\ pc' = IF Len(next.r.queue) = 0 THEN "download" ELSE "traverse"
             /\ UNCHANGED <<last, fresh>>
  /\ UNCHANGED <<world, facade, manifest, lockDisk, legacy, nm, store,
                 prevFull, lastFull, ncmds, sv, cv, pv>>

(***************************************************************************)
(* One worker of the parallel download pool.                               *)
(***************************************************************************)
DownloadOne(n) ==
  /\ pc = "download"
  /\ n \in DOMAIN run.dl
  /\ run.dl[n] = "todo"
  /\ LET pd == CHOOSE x \in {run.pending[i] : i \in 1..Len(run.pending)} : x.name = n
         r == download_into_cache(cache, n, pd.integrity_hint)
     IN /\ cache' = r.cache
        /\ run' = [run EXCEPT !.dl[n] = IF r.ok THEN "ok" ELSE "err",
                              !.got = IF r.ok
                                      THEN [x \in (DOMAIN @) \cup {n} |->
                                              IF x = n THEN r.integrity ELSE @[x]]
                                      ELSE @,
                              !.verified = IF pd.integrity_hint # NoneT
                                           THEN @ \cup {n} ELSE @]
  /\ UNCHANGED <<world, facade, manifest, lockDisk, legacy, nm, store, pc, last, fresh,
                 prevFull, lastFull, ncmds, sv, cv, pv>>

\* a variant that leaves the entries as the traversal wrote them
RECURSIVE Backfill_skipped(_, _, _, _)
Backfill_skipped(lk, pending, download_results, i) == lk

\* for (p, integrity) in pending.iter().zip(download_results)
RECURSIVE Backfill(_, _, _, _)
Backfill(lk, pending, download_results, i) ==
  IF i > Len(pending) THEN lk
  ELSE Backfill(IF Has(lk, Key(pending[i].name))
                THEN [lk EXCEPT ![Key(pending[i].name)].integrity =
                        download_results[pending[i].name]]
                ELSE lk,
                pending, download_results, i + 1)

(***************************************************************************)
(* The join of the download pool and everything up to the start of the     *)
(* installer: integrity backfill, pruning, store plan.                     *)
(***************************************************************************)
\* ensure_store_plan has run: record the plan, or abort on its error
StorePlanned(sp, nm1) ==
  LET r1 == [run EXCEPT !.lock = sp.lock, !.plan = sp.plan,
                        !.nmTouched = @ \/ nm1.dirs # nm.dirs]
  IN /\ store' = sp.store
     /\ IF sp.err # None
        THEN /\ Abort(r1, "store", nm1)
             /\ nm' = nm1
        ELSE /\ pc' = "materialize"
             /\ run' = r1
             /\ nm' = [nm1 EXCEPT !.exists = TRUE]
             /\ UNCHANGED <<last, fresh>>

DownloadJoin ==
  /\ pc = "download"
  /\ \/ \A n \in DOMAIN run.dl : run.dl[n] # "todo"
     \/ \E n \in DOMAIN run.dl : run.dl[n] = "err"
  /\ IF \E n \in DOMAIN run.dl : run.dl[n] = "err"
     THEN /\ Abort(run, "integrity", nm)
          /\ UNCHANGED <<nm, store>>
     ELSE LET lock1 == Backfill(run.lock, run.pending, run.got, 1)
              pruned == IF Len(run.specs) = 0 THEN prune_unreachable(lock1)
                        ELSE [lock |-> lock1, removed |-> {}]
          IN StorePlanned(ensure_store_plan(store, pruned.lock, run.instances,
                                            cache \cup WorkspaceNames(world)),
                          remove_dirs(nm, pruned.removed, facade))
  /\ UNCHANGED <<world, facade, manifest, lockDisk, legacy, cache, prevFull, lastFull,
                 ncmds, sv, cv, pv>>

(***************************************************************************)
(* One worker of Installer::install: replace node_modules/<n>.             *)
(***************************************************************************)
Materialize(n) ==
  /\ pc = "materialize"
  /\ n \in (DOMAIN run.plan) \ run.done
  /\ nm' = [nm EXCEPT !.dirs = @ \cup {n}]
  /\ run' = [run EXCEPT !.done = @ \cup {n}, !.nmTouched = TRUE]
  /\ UNCHANGED <<world, facade, manifest, lockDisk, legacy, cache, store, pc, last,
                 fresh, prevFull, lastFull, ncmds, sv, cv, pv>>

\* the serial pass of Installer::install over the results
BackWrite(lk, plan) ==
  [k \in DOMAIN lk |->
     IF IsPkgKey(k) /\ StripPrefix(k) \in DOMAIN plan
     THEN [lk[k] EXCEPT !.store_key = plan[StripPrefix(k)].store_key,
                        !.content_hash = plan[StripPrefix(k)].content_hash,
                        !.link_mode = "link"]
     ELSE lk[k]]

(***************************************************************************)
(* The end of a fast or full install: lockfile write, deletion of an empty *)
(* lockfile, cleanup of an empty node_modules.                             *)
(***************************************************************************)
InstallFinish ==
  /\ pc = "materialize"
  /\ run.done = DOMAIN run.plan
  /\ LET lock2 == BackWrite(run.lock, run.plan)
         full == [valid |-> TRUE, specs |-> run.specs, manifest |-> manifest,
                  cache |-> run.cache0, store |-> run.store0, lock |-> lock2,
                  order |-> run.order]
         disk2 == IF lockfile_has_no_packages(lock2) THEN NoFile ELSE File(lock2)
         nm2 == cleanup_empty_node_modules_dir(nm, facade)
     IN /\ lockDisk' = disk2
        /\ nm' = nm2
        /\ last' = Complete([run EXCEPT !.wroteLock = TRUE], "ok", None,
                            Snapshot(manifest, disk2, nm2))
        /\ fresh' = TRUE
        /\ IF run.path = "full"
           THEN prevFull' = lastFull /\ lastFull' = full
           ELSE UNCHANGED <<prevFull, lastFull>>
  /\ pc' = "idle"
  /\ run' = IdleRun
  /\ UNCHANGED <<world, facade, manifest, legacy, cache, store, ncmds, sv, cv, pv>>

(***************************************************************************)
(* cmd_remove.                                                             *)
(***************************************************************************)
RemoveFrom(m, pkgs) ==
  [m EXCEPT !.dependencies = @ \ pkgs,
            !.dev_dependencies = @ \ (pkgs \ m.dependencies),
            !.optional_dependencies = @ \ (pkgs \ (m.dependencies \cup m.dev_dependencies))]

cmd_remove(pkgs) ==
  /\ pc = "idle"
  /\ ncmds < MaxCmds
  /\ ncmds' = ncmds + 1
  /\ LET actually_removed ==
           pkgs \cap (manifest.dependencies \cup manifest.dev_dependencies
                        \cup manifest.optional_dependencies)
         lock0 == IF lockDisk.exists THEN lockDisk.lock ELSE DefaultLock
         pruned == prune_unreachable(prune_removed_from_lock(lock0, actually_removed))
         to_delete == actually_removed \cup pruned.removed
         nm1 == remove_dirs(nm, to_delete, facade)
         nm2 == cleanup_empty_node_modules_dir(nm1, facade)
         disk2 == IF lockfile_has_no_packages(pruned.lock) THEN NoFile ELSE File(pruned.lock)
         rec == [NoLast EXCEPT !.kind = "remove", !.status = "ok",
                               !.pre = Snapshot(manifest, lockDisk, nm),
                               !.post = Snapshot(manifest, lockDisk, nm),
                               !.installed = actually_removed]
     IN IF actually_removed = {}
        THEN /\ last' = rec
             /\ UNCHANGED <<manifest, lockDisk, nm, fresh>>
        ELSE /\ manifest' = RemoveFrom(manifest, pkgs)
             /\ lockDisk' = disk2
             /\ nm' = nm2
             /\ last' = [rec EXCEPT !.wroteLock = TRUE, !.nmTouched = (nm1.dirs # nm.dirs),
                                    !.post = Snapshot(RemoveFrom(manifest, pkgs), disk2, nm2)]
             /\ fresh' = FALSE
  /\ UNCHANGED <<world, facade, legacy, cache, store, pc, run, prevFull, lastFull, sv, cv, pv>>

\* the user edits package.json between two commands
EditManifest(m) ==
  /\ pc = "idle"
  /\ ncmds < MaxCmds
  /\ m # manifest
  /\ manifest' = m
  /\ ncmds' = ncmds + 1
  /\ fresh' = FALSE
  /\ UNCHANGED <<world, facade, lockDisk, legacy, nm, cache, store, pc, run, last,
                 prevFull, lastFull, sv, cv, pv>>

(***************************************************************************)
(* CasStore::ensure_entry, step by step, for two producers of the same     *)
(* (name, version, dependency fingerprints), hence of the same final       *)
(* directory.  A producer is a thread or a process; two threads of one     *)
(* process, or two processes in different pid namespaces that share the    *)
(* store, have the same pid.                                               *)
(*                                                                         *)
(* sv.dirs is the sequence of directories ever created (a directory keeps  *)
(* its identity across a rename); sv.tmps binds names under <store>/tmp to *)
(* directories; sv.final is the directory at the canonical path, 0 if none.*)
(***************************************************************************)
Producers == {1, 2}
Files == <<"package.json", "index.js">>
FileSet == {Files[i] : i \in 1..Len(Files)}

EmptyDir == [files |-> [f \in FileSet |-> "absent"], meta |-> NoneT]
CompleteTree == [f \in FileSet |-> "full"]

\* compute_tree_content_hash: the digest and the total size of what is there
TreeHash(files) == <<"sha256", files>>
TreeSize(files) == Cardinality({f \in FileSet : files[f] = "full"})

unique_suffix(ts, pid) == <<ts, pid>>

TmpBound(s, name) == \E b \in s.tmps : b.name = name
TmpId(s, name) == (CHOOSE b \in s.tmps : b.name = name).id
Unbind(s, name) == [s EXCEPT !.tmps = {b \in @ : b.name # name}]

\* create_dir_all on a path under the tmp name
CreateTmp(s, name) ==
  IF TmpBound(s, name) THEN s
  ELSE [s EXCEPT !.dirs = Append(@, EmptyDir),
                 !.tmps = @ \cup {[name |-> name, id |-> Len(s.dirs) + 1]}]

MetadataExists(s) == s.final # 0 /\ s.dirs[s.final].meta # NoneT

StoreIdle(pid) ==
  [pc |-> "check", pid |-> pid, tmp |-> << >>, idx |-> 1, fd |-> 0,
   hash |-> NoneT, size |-> 0, created_at |-> 0, ok |-> FALSE, entry |-> NoneT]

StoreStart(pid2) ==
  [clock |-> 0, dirs |-> << >>, tmps |-> {}, final |-> 0, crashes |-> 0,
   prod |-> [p \in Producers |-> StoreIdle(IF p = 1 THEN 1 ELSE pid2)]]

Fail(s, p) == [s EXCEPT !.prod[p].pc = "failed", !.prod[p].fd = 0]

Return(s, p, entry) ==
  [s EXCEPT !.prod[p].pc = "done", !.prod[p].ok = TRUE, !.prod[p].entry = entry]

\* metadata.json exists at the canonical path: return it; else name the tmp target
EnsureCheck(p) ==
  /\ sv.prod[p].pc = "check"
  /\ sv' = IF MetadataExists(sv)
           THEN Return(sv, p, sv.dirs[sv.final].meta)
           ELSE [sv EXCEPT !.prod[p].pc = "mkdir",
                           !.prod[p].tmp = unique_suffix(sv.clock, sv.prod[p].pid)]
  /\ UNCHANGED <<ivars, cv, pv>>

\* fs::create_dir_all(&tmp_package_dir)
EnsureMkdir(p) ==
  /\ sv.prod[p].pc = "mkdir"
  /\ sv' = [CreateTmp(sv, sv.prod[p].tmp) EXCEPT !.prod[p].pc = "parent"]
  /\ UNCHANGED <<ivars, cv, pv>>

\* copy_tree, one file: create_dir_all(parent)
CopyParent(p) ==
  /\ sv.prod[p].pc = "parent"
  /\ sv' = [CreateTmp(sv, sv.prod[p].tmp) EXCEPT !.prod[p].pc = "open"]
  /\ UNCHANGED <<ivars, cv, pv>>

\* copy_tree, one file: fs::copy opens the destination and truncates it
CopyOpen(p) ==
  /\ sv.prod[p].pc = "open"
  /\ LET me == sv.prod[p]
     IN sv' = IF TmpBound(sv, me.tmp)
              THEN [sv EXCEPT !.dirs[TmpId(sv, me.tmp)].files[Files[me.idx]] = "partial",
                              !.prod[p].fd = TmpId(sv, me.tmp),
                              !.prod[p].pc = "write"]
              ELSE Fail(sv, p)
  /\ UNCHANGED <<ivars, cv, pv>>

\* copy_tree, one file: fs::copy fills the open file
CopyWrite(p) ==
  /\ sv.prod[p].pc = "write"
  /\ LET me == sv.prod[p]
     IN sv' = [sv EXCEPT !.dirs[me.fd].files[Files[me.idx]] = "full",
                         !.prod[p].fd = 0,
                         !.prod[p].pc = "perms"]
  /\ UNCHANGED <<ivars, cv, pv>>

\* copy_tree, one file: fs::set_permissions(&dest, perms), by path
CopyPerms(p) ==
  /\ sv.prod[p].pc = "perms"
  /\ LET me == sv.prod[p]
     IN sv' = IF /\ TmpBound(sv, me.tmp)
                 /\ sv.dirs[TmpId(sv, me.tmp)].files[Files[me.idx]] # "absent"
              THEN [sv EXCEPT !.prod[p].idx = @ + 1,
                              !.prod[p].pc = IF me.idx = Len(Files) THEN "hash" ELSE "parent"]
              ELSE Fail(sv, p)
  /\ UNCHANGED <<ivars, cv, pv>>

\* compute_tree_content_hash(&tmp_package_dir)
EnsureHash(p) ==
  /\ sv.prod[p].pc = "hash"
  /\ LET me == sv.prod[p]
     IN sv' = IF TmpBound(sv, me.tmp)
              THEN [sv EXCEPT !.prod[p].hash = TreeHash(sv.dirs[TmpId(sv, me.tmp)].files),
                              !.prod[p].size = TreeSize(sv.dirs[TmpId(sv, me.tmp)].files),
                              !.prod[p].pc = "meta"]
              ELSE Fail(sv, p)
  /\ UNCHANGED <<ivars, cv, pv>>

MetadataOf(me, now) ==
  <<[content_hash |-> me.hash, size |-> me.size, created_at |-> now]>>

\* write_metadata(&tmp_target.join("metadata.json"), ..)
EnsureWriteMeta(p) ==
  /\ sv.prod[p].pc = "meta"
  /\ LET me == sv.prod[p]
     IN sv' = IF TmpBound(sv, me.tmp)
              THEN [sv EXCEPT !.dirs[TmpId(sv, me.tmp)].meta = MetadataOf(me, sv.clock),
                              !.prod[p].created_at = sv.clock,
                              !.prod[p].pc = "rename"]
              ELSE Fail(sv, p)
  /\ UNCHANGED <<ivars, cv, pv>>

\* fs::rename(&tmp_target, &final_dir) and the fallback on its failure
EnsureRename(p) ==
  /\ sv.prod[p].pc = "rename"
  /\ LET me == sv.prod[p]
     IN sv' = IF TmpBound(sv, me.tmp) /\ sv.final = 0
              THEN Return([Unbind(sv, me.tmp) EXCEPT !.final = TmpId(sv, me.tmp)], p,
                          MetadataOf(me, me.created_at))
              ELSE IF MetadataExists(sv)
              THEN Return(Unbind(sv, me.tmp), p, sv.dirs[sv.final].meta)
              ELSE Fail(sv, p)
  /\ UNCHANGED <<ivars, cv, pv>>

\* a producer stops for good at whatever step it is
Crash(p) ==
  /\ sv.prod[p].pc \notin {"done", "failed", "crashed"}
  /\ sv.crashes < MaxCrashes
  /\ sv' = [sv EXCEPT !.prod[p].pc = "crashed", !.prod[p].fd = 0, !.crashes = @ + 1]
  /\ UNCHANGED <<ivars, cv, pv>>

\* the clock that unix_timestamp reads moves on by a second
Tick ==
  /\ sv.clock < MaxClock
  /\ sv' = [sv EXCEPT !.clock = @ + 1]
  /\ UNCHANGED <<ivars, cv, pv>>

StoreNext ==
  \/ \E p \in Producers : EnsureCheck(p)
  \/ \E p \in Producers : EnsureMkdir(p)
  \/ \E p \in Producers : CopyParent(p)
  \/ \E p \in Producers : CopyOpen(p)
  \/ \E p \in Producers : CopyWrite(p)
  \/ \E p \in Producers : CopyPerms(p)
  \/ \E p \in Producers : EnsureHash(p)
  \/ \E p \in Producers : EnsureWriteMeta(p)
  \/ \E p \in Producers : EnsureRename(p)
  \/ \E p \in Producers : Crash(p)
  \/ Tick

StoreParked == sv = StoreStart(2)

(***************************************************************************)
(* ensure_cached_package, step by step, for two producers that extract a   *)
(* tarball of the same package: producer 1 version 1.0.0, producer 2 one   *)
(* of CacheVersions.  A version is the sequence of the dot-separated parts *)
(* of its directory name.                                                  *)
(*                                                                         *)
(* cv.dirs is the sequence of directories ever created; cv.tmps binds      *)
(* names of temporary directories, cv.entries binds versions (the cache    *)
(* directory of a version) to directories.  A file holds the version whose *)
(* tarball it was unpacked from.                                           *)
(***************************************************************************)
V100 == <<"1", "0", "0">>
CacheVersions == {<<"1", "0", "0">>, <<"1", "0", "1">>, <<"1", "1", "0">>}

\* Path::with_extension("tmp"): the part after the last dot is replaced
with_extension_tmp(v) == <<v[1], v[2], "tmp">>

\* the files of the tarball of a version: 1.0.1 no longer ships index.js
TarFiles(v) == IF v = <<"1", "0", "1">> THEN <<"package.json">> ELSE Files

NoFiles == [f \in FileSet |-> NoneT]
ExtractedTree(v) ==
  [f \in FileSet |-> IF \E i \in 1..Len(TarFiles(v)) : TarFiles(v)[i] = f THEN v ELSE NoneT]

CBound(bs, name) == \E b \in bs : b.name = name
CId(bs, name) == (CHOOSE b \in bs : b.name = name).id

CacheCreateTmp(c, name) ==
  IF CBound(c.tmps, name) THEN c
  ELSE [c EXCEPT !.dirs = Append(@, NoFiles),
                 !.tmps = @ \cup {[name |-> name, id |-> Len(c.dirs) + 1]}]

CacheStart(v2) ==
  [dirs |-> << >>, tmps |-> {}, entries |-> {},
   prod |-> [p \in Producers |->
               [pc |-> "marker", version |-> IF p = 1 THEN V100 ELSE v2,
                idx |-> 1, ok |-> FALSE, late |-> FALSE]]]

CacheFail(c, p) == [c EXCEPT !.prod[p].pc = "failed"]
CacheReturn(c, p) == [c EXCEPT !.prod[p].pc = "done", !.prod[p].ok = TRUE]

\* the digest matched the hint; marker.exists() decides between return and extraction
CacheMarker(p) ==
  /\ cv.prod[p].pc = "marker"
  /\ LET late == \E q \in Producers \ {p} : cv.prod[q].pc = "crashed"
     IN cv' = IF CBound(cv.entries, cv.prod[p].version)
              THEN CacheReturn([cv EXCEPT !.prod[p].late = late], p)
              ELSE [cv EXCEPT !.prod[p].pc = "mkdir", !.prod[p].late = late]
  /\ UNCHANGED <<ivars, sv, pv>>

\* create_dir_all(&tmp); create_dir_all(&extract_root)
CacheMkdir(p) ==
  /\ cv.prod[p].pc = "mkdir"
  /\ cv' = [CacheCreateTmp(cv, with_extension_tmp(cv.prod[p].version))
              EXCEPT !.prod[p].pc = "parent"]
  /\ UNCHANGED <<ivars, sv, pv>>

\* one archive entry: create_dir_all(parent)
CacheParent(p) ==
  /\ cv.prod[p].pc = "parent"
  /\ cv' = [CacheCreateTmp(cv, with_extension_tmp(cv.prod[p].version))
              EXCEPT !.prod[p].pc = "unpack"]
  /\ UNCHANGED <<ivars, sv, pv>>

\* one archive entry: e.unpack(&dest_path), replacing what is there
CacheUnpack(p) ==
  /\ cv.prod[p].pc = "unpack"
  /\ LET me == cv.prod[p]
         tmp == with_extension_tmp(me.version)
     IN cv' = IF CBound(cv.tmps, tmp)
              THEN [cv EXCEPT !.dirs[CId(cv.tmps, tmp)][TarFiles(me.version)[me.idx]] =
                                me.version,
                              !.prod[p].idx = @ + 1,
                              !.prod[p].pc = IF me.idx = Len(TarFiles(me.version))
                                             THEN "readdir" ELSE "parent"]
              ELSE CacheFail(cv, p)
  /\ UNCHANGED <<ivars, sv, pv>>

\* fs::read_dir(&extract_root); the tarballs here have no single inner directory
CacheReadDir(p) ==
  /\ cv.prod[p].pc = "readdir"
  /\ cv' = IF CBound(cv.tmps, with_extension_tmp(cv.prod[p].version))
           THEN [cv EXCEPT !.prod[p].pc = "rename"]
           ELSE CacheFail(cv, p)
  /\ UNCHANGED <<ivars, sv, pv>>

\* fs::rename(&tmp, &dir)?
CacheRename(p) ==
  /\ cv.prod[p].pc = "rename"
  /\ LET me == cv.prod[p]
         tmp == with_extension_tmp(me.version)
     IN cv' = IF CBound(cv.tmps, tmp) /\ ~CBound(cv.entries, me.version)
              THEN CacheReturn([cv EXCEPT
                                  !.entries = @ \cup {[name |-> me.version,
                                                       id |-> CId(cv.tmps, tmp)]},
                                  !.tmps = {b \in @ : b.name # tmp}], p)
              ELSE CacheFail(cv, p)
  /\ UNCHANGED <<ivars, sv, pv>>

\* a producer stops for good before its rename; what it staged stays
CacheCrash(p) ==
  /\ cv.prod[p].pc \in {"mkdir", "parent", "unpack", "readdir", "rename"}
  /\ cv' = [cv EXCEPT !.prod[p].pc = "crashed"]
  /\ UNCHANGED <<ivars, sv, pv>>

CacheNext ==
  \/ \E p \in Producers : CacheMarker(p)
  \/ \E p \in Producers : CacheMkdir(p)
  \/ \E p \in Producers : CacheParent(p)
  \/ \E p \in Producers : CacheUnpack(p)
  \/ \E p \in Producers : CacheReadDir(p)
  \/ \E p \in Producers : CacheRename(p)
  \/ \E p \in Producers : CacheCrash(p)

CacheParked == cv = CacheStart(V100)

CallsParked == pv = NoneT

(***************************************************************************)
(* Specifications.                                                         *)
(***************************************************************************)
InstallParked ==
  /\ world = [cache0 |-> {}, hintBad |-> {}, nohint |-> {}, excl |-> TRUE, opeer |-> FALSE,
              ws |-> FALSE, wpeer |-> FALSE, legacy |-> FALSE, blocked |-> {}]
  /\ facade = FALSE
  /\ manifest = Mk({}, {})
  /\ lockDisk = NoFile
  /\ legacy = FALSE
  /\ nm = EmptyModules
  /\ cache = {}
  /\ store = << >>
  /\ pc = "idle"
  /\ run = IdleRun
  /\ last = NoLast
  /\ fresh = FALSE
  /\ prevFull = NoFull
  /\ lastFull = NoFull
  /\ ncmds = 0

Next ==
  \/ \E specs \in SpecChoices : InstallBegin(specs, FALSE)
  \/ InstallBegin(<< >>, TRUE)
  \/ Traverse
  \/ \E n \in Names : DownloadOne(n)
  \/ DownloadJoin
  \/ \E n \in Names : Materialize(n)
  \/ InstallFinish
  \/ \E n \in {"a", "b"} : cmd_remove({n})
  \/ \E m \in ManifestsOf(world) : EditManifest(m)

\* the install commands run; no producer of the step-wise models moves
InstallInit == Init /\ StoreParked /\ CacheParked /\ CallsParked

\* two producers are about to call ensure_entry; the second one's pid is chosen
StoreInit == InstallParked /\ CacheParked /\ CallsParked /\ \E pid2 \in Producers : sv = StoreStart(pid2)

\* two producers are about to call ensure_cached_package; the second one's version is chosen
CacheInit == InstallParked /\ StoreParked /\ CallsParked /\ \E v2 \in CacheVersions : cv = CacheStart(v2)

Spec == InstallInit /\ [][Next]_vars

SpecStore == StoreInit /\ [][StoreNext]_vars

SpecCache == CacheInit /\ [][CacheNext]_vars

(***************************************************************************)
(* CasStore::ensure_entry called again and again for package a, with       *)
(* drawn dependency fingerprints, source directory contents and integrity. *)
(*   pv = [store, calls, before, args, result]                             *)
(***************************************************************************)
MaxCalls == 3

\* what the cache directory of a holds when ensure_entry copies it
EntrySources == {TreeOf("a"), <<"tree", "a", "changed">>}
EntryIntegrities == {NoneT, Digest("a"), BogusDigest}
EntryDeps ==
  { << >>,
    <<[name |-> "c", version |-> Ver("c"),
       store_key |-> compute_graph_hash("c", Ver("c"), << >>).store_key]>> }

EntryStart ==
  [store |-> << >>, calls |-> 0, before |-> << >>, args |-> NoneT, result |-> NoneT]

EntryCall(deps, source, integrity) ==
  /\ pv.calls < MaxCalls
  /\ LET r == ensure_entry(pv.store, "a", Ver("a"), deps, source, integrity)
     IN pv' = [store |-> r.store, calls |-> pv.calls + 1, before |-> pv.store,
               args |-> <<[deps |-> deps, source |-> source, integrity |-> integrity]>>,
               result |-> <<r.entry>>]
  /\ UNCHANGED <<ivars, sv, cv>>

EntryNext ==
  \E deps \in EntryDeps, source \in EntrySources, integrity \in EntryIntegrities :
    EntryCall(deps, source, integrity)

EntryInit == InstallParked /\ StoreParked /\ CacheParked /\ pv = EntryStart

SpecEntry == EntryInit /\ [][EntryNext]_vars

(***************************************************************************)
(* download_into_cache called again and again for one package: the tarball *)
(* bytes, the integrity hint and the registry scripts are drawn.  A cache  *)
(* entry is its package directory: the extracted tree and, once written,   *)
(* the file .registry-scripts.json.                                        *)
(*   pv = [cache, pc, cur, calls, last]                                    *)
(***************************************************************************)
Tarballs == {"t1", "t2"}
TarDigest(bytes) == <<"sha512", bytes>>
DownloadVersions == {<<"1", "0", "0">>, <<"1", "0", "1">>}
\* Option<BTreeMap>: None, Some of the empty map, Some of a map with a script
ScriptChoices == {NoneT, <<{}>>, <<{"postinstall"}>>}

\* base64 that STANDARD.decode rejects
Undecodable == "?"
DownloadHints == {NoneT, TarDigest("t1"), <<"sha1", "t1">>, <<"sha512", Undecodable>>}

\* a variant that tests the marker before it compares the digests
ensure_cached_package_dir_marker_first(c, v, bytes, hint) ==
  IF v \in DOMAIN c
  THEN [ok |-> TRUE, cache |-> c, err |-> None]
  ELSE IF hint # NoneT /\ hint[1] = "sha512" /\ hint # TarDigest(bytes)
  THEN [ok |-> FALSE, cache |-> c, err |-> "integrity mismatch"]
  ELSE [ok |-> TRUE,
        cache |-> [x \in (DOMAIN c) \cup {v} |->
                     IF x = v THEN [tree |-> bytes, sidecar |-> NoneT] ELSE c[x]],
        err |-> None]

\* ensure_cached_package run to completion, on the contents of the cache:
\* [ok, cache, err]
ensure_cached_package_dir(c, v, bytes, hint) ==
  IF hint # NoneT /\ hint[1] = "sha512" /\ hint[2] = Undecodable
  THEN [ok |-> FALSE, cache |-> c, err |-> "decode integrity base64"]
  ELSE IF hint # NoneT /\ hint[1] = "sha512" /\ hint # TarDigest(bytes)
  THEN [ok |-> FALSE, cache |-> c, err |-> "integrity mismatch"]
  ELSE IF v \in DOMAIN c
  THEN [ok |-> TRUE, cache |-> c, err |-> None]
  ELSE [ok |-> TRUE,
        cache |-> [x \in (DOMAIN c) \cup {v} |->
                     IF x = v THEN [tree |-> bytes, sidecar |-> NoneT] ELSE c[x]],
        err |-> None]

DownloadStart ==
  [cache |-> << >>, pc |-> "idle", cur |-> NoneT, calls |-> 0, last |-> NoneT]

\* download_into_cache up to the return of ensure_cached_package; last keeps
\* the arguments and the outcome of the call
DownloadEnsure(v, bytes, hint, scripts) ==
  /\ pv.pc = "idle"
  /\ pv.calls < MaxCalls
  /\ LET r == ensure_cached_package_dir(pv.cache, v, bytes, hint)
     IN pv' = [cache |-> r.cache,
               pc |-> IF r.ok THEN "sidecar" ELSE "idle",
               cur |-> IF r.ok THEN <<[version |-> v, scripts |-> scripts]>> ELSE NoneT,
               calls |-> pv.calls + 1,
               last |-> <<[version |-> v, bytes |-> bytes, hint |-> hint,
                           existed |-> v \in DOMAIN pv.cache,
                           ok |-> r.ok, err |-> r.err]>>]
  /\ UNCHANGED <<ivars, sv, cv>>

\* download_into_cache: the sidecar is written when scripts is Some
DownloadSidecar ==
  /\ pv.pc = "sidecar"
  /\ pv' = [pv EXCEPT !.pc = "idle", !.cur = NoneT,
                      !.cache = IF pv.cur[1].scripts # NoneT
                                THEN [@ EXCEPT ![pv.cur[1].version].sidecar = pv.cur[1].scripts]
                                ELSE @]
  /\ UNCHANGED <<ivars, sv, cv>>

DownloadNext ==
  \/ \E v \in DownloadVersions, bytes \in Tarballs, hint \in DownloadHints,
        scripts \in ScriptChoices : DownloadEnsure(v, bytes, hint, scripts)
  \/ DownloadSidecar

DownloadInit == InstallParked /\ StoreParked /\ CacheParked /\ pv = DownloadStart

SpecDownload == DownloadInit /\ [][DownloadNext]_vars

(***************************************************************************)
(* The binary lockfile codec (lockfile.rs).  A string is the sequence of   *)
(* its bytes, Option<String> is NoneT or a one-element tuple, a BTreeMap   *)
(* is a function on its keys, a Vec<String> a sequence.                    *)
(***************************************************************************)
MAX_LOCKFILE_SIZE == 16 * 1024 * 1024
\* b"PACMLOCK"
LOCKFILE_MAGIC == <<80, 65, 67, 77, 76, 79, 67, 75>>
CURRENT_WIRE_VERSION == 3

write_u16(value) == <<value % 256, (value \div 256) % 256>>

write_u32(value) ==
  <<value % 256, (value \div 256) % 256, (value \div 65536) % 256,
    (value \div 16777216) % 256>>

write_len(len) == write_u32(len)

write_string(value) == write_len(Len(value)) \o value

\* an encoder that writes Some("") as None
write_option_string_dropping_empty(value) ==
  IF value = NoneT \/ value[1] = << >> THEN <<0>> ELSE <<1>> \o write_string(value[1])

write_option_string(value) ==
  IF value = NoneT THEN <<0>> ELSE <<1>> \o write_string(value[1])

\* byte-wise order of String, the iteration order of a BTreeMap
RECURSIVE LexLess(_, _)
LexLess(x, y) ==
  IF Len(x) = 0 THEN Len(y) > 0
  ELSE IF Len(y) = 0 THEN FALSE
  ELSE IF x[1] # y[1] THEN x[1] < y[1]
  ELSE LexLess(Tail(x), Tail(y))

RECURSIVE SortedKeys(_)
SortedKeys(S) ==
  IF S = {} THEN << >>
  ELSE LET m == CHOOSE x \in S : \A y \in S \ {x} : LexLess(x, y)
       IN <<m>> \o SortedKeys(S \ {m})

RECURSIVE Flatten(_)
Flatten(chunks) == IF Len(chunks) = 0 THEN << >> ELSE Head(chunks) \o Flatten(Tail(chunks))

WriteStringMapItems(map, ks) ==
  write_len(Len(ks))
    \o Flatten([i \in 1..Len(ks) |-> write_string(ks[i]) \o write_string(map[ks[i]])])

write_string_map(map) == WriteStringMapItems(map, SortedKeys(DOMAIN map))

WritePeerMetaItems(map, ks) ==
  write_len(Len(ks))
    \o Flatten([i \in 1..Len(ks) |->
                  write_string(ks[i]) \o <<IF map[ks[i]].optional THEN 1 ELSE 0>>])

write_peer_meta_map(map) == WritePeerMetaItems(map, SortedKeys(DOMAIN map))

write_string_list(list) ==
  write_len(Len(list)) \o Flatten([i \in 1..Len(list) |-> write_string(list[i])])

\* the body of the loop over lf.packages
EncodeEntry(name, entry) ==
  write_string(name)
    \o write_option_string(entry.version)
    \o write_option_string(entry.integrity)
    \o write_option_string(entry.resolved)
    \o write_string_map(entry.dependencies)
    \o write_string_map(entry.dev_dependencies)
    \o write_string_map(entry.optional_dependencies)
    \o write_string_map(entry.peer_dependencies)
    \o write_peer_meta_map(entry.peer_dependencies_meta)
    \o write_string_list(entry.os)
    \o write_string_list(entry.cpu_arch)
    \o write_option_string(entry.store_key)
    \o write_option_string(entry.content_hash)
    \o write_option_string(entry.link_mode)
    \o write_option_string(entry.store_path)

\* the packages section: the count, then the entries in key order
EncodePackages(packages, ks) ==
  write_len(Len(ks)) \o Flatten([i \in 1..Len(ks) |-> EncodeEntry(ks[i], packages[ks[i]])])

\* the header around the packages section, and the reserved section
EncodeFile(format, packages_buf) ==
  LOCKFILE_MAGIC \o write_u16(CURRENT_WIRE_VERSION) \o write_u16(0)
    \o write_u32(format) \o write_len(Len(packages_buf))
    \o packages_buf \o write_u32(0)

\* the two size checks
Capped(packages_buf, buf) ==
  IF Len(packages_buf) > MAX_LOCKFILE_SIZE \/ Len(buf) > MAX_LOCKFILE_SIZE
  THEN [ok |-> FALSE, data |-> << >>]
  ELSE [ok |-> TRUE, data |-> buf]

EncodeSized(format, packages_buf) == Capped(packages_buf, EncodeFile(format, packages_buf))

\* returns [ok, data]
encode_current_binary(lf) ==
  EncodeSized(lf.format, EncodePackages(lf.packages, SortedKeys(DOMAIN lf.packages)))

\* a reader returns [ok, pos, v]; pos counts the bytes consumed so far
ReadErr == [ok |-> FALSE, pos |-> 0, v |-> NoneT]
ReadOk(pos, v) == [ok |-> TRUE, pos |-> pos, v |-> v]

\* the ? operator: an error ends the reader, a value goes to the rest of it
Then(r, Rest(_)) == IF r.ok THEN Rest(r) ELSE ReadErr

read_u16(data, pos) ==
  IF pos + 2 > Len(data) THEN ReadErr
  ELSE ReadOk(pos + 2, data[pos + 1] + 256 * data[pos + 2])

read_u32(data, pos) ==
  IF pos + 4 > Len(data) THEN ReadErr
  ELSE ReadOk(pos + 4, data[pos + 1] + 256 * data[pos + 2] + 65536 * data[pos + 3]
                         + 16777216 * data[pos + 4])

read_len(data, pos) == read_u32(data, pos)

read_exact(data, pos, len) ==
  IF pos + len > Len(data) THEN ReadErr
  ELSE ReadOk(pos + len, SubSeq(data, pos + 1, pos + len))

\* the strings of the model are ASCII
ValidUtf8(bytes) == \A i \in 1..Len(bytes) : bytes[i] < 128

read_string(data, pos) ==
  Then(read_len(data, pos), LAMBDA len :
    Then(read_exact(data, len.pos, len.v), LAMBDA bytes :
      IF ValidUtf8(bytes.v) THEN bytes ELSE ReadErr))

read_option_string(data, pos) ==
  IF pos >= Len(data) THEN ReadErr
  ELSE IF data[pos + 1] = 0 THEN ReadOk(pos + 1, NoneT)
  ELSE IF data[pos + 1] = 1
  THEN Then(read_string(data, pos + 1), LAMBDA s : ReadOk(s.pos, <<s.v>>))
  ELSE ReadErr

\* BTreeMap::insert
MapInsert(map, key, value) ==
  [x \in (DOMAIN map) \cup {key} |-> IF x = key THEN value ELSE map[x]]

RECURSIVE ReadStringMapItems(_, _, _, _)
ReadStringMapItems(data, pos, n, map) ==
  IF n = 0 THEN ReadOk(pos, map)
  ELSE Then(read_string(data, pos), LAMBDA key :
         Then(read_string(data, key.pos), LAMBDA value :
           ReadStringMapItems(data, value.pos, n - 1, MapInsert(map, key.v, value.v))))

read_string_map(data, pos) ==
  Then(read_len(data, pos), LAMBDA len : ReadStringMapItems(data, len.pos, len.v, << >>))

RECURSIVE ReadPeerMetaItems(_, _, _, _)
ReadPeerMetaItems(data, pos, n, map) ==
  IF n = 0 THEN ReadOk(pos, map)
  ELSE Then(read_string(data, pos), LAMBDA key :
         IF key.pos >= Len(data) \/ data[key.pos + 1] \notin {0, 1} THEN ReadErr
         ELSE ReadPeerMetaItems(data, key.pos + 1, n - 1,
                                MapInsert(map, key.v, [optional |-> data[key.pos + 1] = 1])))

read_peer_meta_map(data, pos) ==
  Then(read_len(data, pos), LAMBDA len : ReadPeerMetaItems(data, len.pos, len.v, << >>))

RECURSIVE ReadStringListItems(_, _, _, _)
ReadStringListItems(data, pos, n, list) ==
  IF n = 0 THEN ReadOk(pos, list)
  ELSE Then(read_string(data, pos), LAMBDA item :
         ReadStringListItems(data, item.pos, n - 1, Append(list, item.v)))

read_string_list(data, pos) ==
  Then(read_len(data, pos), LAMBDA len : ReadStringListItems(data, len.pos, len.v, << >>))

\* the readers of one entry in wire order, as far as the wire version has them
EntryReaders(wire_version) ==
  <<"option", "option", "option", "map", "map", "map", "map", "peer">>
    \o (IF wire_version >= 2 THEN <<"list", "list">> ELSE << >>)
    \o (IF wire_version >= 3 THEN <<"option", "option", "option", "option">> ELSE << >>)

ReadField(kind, data, pos) ==
  IF kind = "option" THEN read_option_string(data, pos)
  ELSE IF kind = "map" THEN read_string_map(data, pos)
  ELSE IF kind = "peer" THEN read_peer_meta_map(data, pos)
  ELSE read_string_list(data, pos)

RECURSIVE ReadFields(_, _, _, _, _)
ReadFields(data, pos, readers, i, vals) ==
  IF i > Len(readers) THEN ReadOk(pos, vals)
  ELSE Then(ReadField(readers[i], data, pos), LAMBDA f :
         ReadFields(data, f.pos, readers, i + 1, Append(vals, f.v)))

PackageEntryOf(vals) ==
  [version |-> vals[1], integrity |-> vals[2], resolved |-> vals[3],
   dependencies |-> vals[4], dev_dependencies |-> vals[5],
   optional_dependencies |-> vals[6], peer_dependencies |-> vals[7],
   peer_dependencies_meta |-> vals[8],
   os |-> IF Len(vals) >= 10 THEN vals[9] ELSE << >>,
   cpu_arch |-> IF Len(vals) >= 10 THEN vals[10] ELSE << >>,
   store_key |-> IF Len(vals) >= 14 THEN vals[11] ELSE NoneT,
   content_hash |-> IF Len(vals) >= 14 THEN vals[12] ELSE NoneT,
   link_mode |-> IF Len(vals) >= 14 THEN vals[13] ELSE NoneT,
   store_path |-> IF Len(vals) >= 14 THEN vals[14] ELSE NoneT]

RECURSIVE ReadPackages(_, _, _, _, _)
ReadPackages(data, pos, wire_version, n, packages) ==
  IF n = 0 THEN ReadOk(pos, packages)
  ELSE Then(read_string(data, pos), LAMBDA key :
         Then(ReadFields(data, key.pos, EntryReaders(wire_version), 1, << >>), LAMBDA fs :
           ReadPackages(data, fs.pos, wire_version, n - 1,
                        MapInsert(packages, key.v, PackageEntryOf(fs.v)))))

\* returns [ok, pos, v]
parse_packages_section(packages_slice, wire_version) ==
  Then(read_len(packages_slice, 0), LAMBDA package_count :
    Then(ReadPackages(packages_slice, package_count.pos, wire_version,
                      package_count.v, << >>), LAMBDA r :
      IF r.pos = Len(packages_slice) THEN r ELSE ReadErr))

StartsWith(data, prefix) ==
  Len(data) >= Len(prefix) /\ SubSeq(data, 1, Len(prefix)) = prefix

\* the header, the packages section and the reserved section; v is the lockfile
DecodeSections(data) ==
  Then(read_u16(data, Len(LOCKFILE_MAGIC)), LAMBDA version :
    IF version.v \notin {CURRENT_WIRE_VERSION, 2, 1} THEN ReadErr
    ELSE
      Then(read_u16(data, version.pos), LAMBDA reserved :
        Then(read_u32(data, reserved.pos), LAMBDA format :
          Then(read_len(data, format.pos), LAMBDA packages_section_len :
            Then(read_exact(data, packages_section_len.pos, packages_section_len.v),
                 LAMBDA packages_slice :
              Then(parse_packages_section(packages_slice.v, version.v), LAMBDA packages :
                Then(read_len(data, packages_slice.pos), LAMBDA extras_len :
                  Then(read_exact(data, extras_len.pos, extras_len.v), LAMBDA extras :
                    IF extras.pos = Len(data)
                    THEN ReadOk(extras.pos, [format |-> format.v, packages |-> packages.v])
                    ELSE ReadErr))))))))

NoLockfile == [format |-> 0, packages |-> << >>]
DecodeErr == [ok |-> FALSE, lf |-> NoLockfile]
Decoded(r) == IF r.ok THEN [ok |-> TRUE, lf |-> r.v] ELSE DecodeErr

\* returns [ok, lf]
decode_current_binary(data) ==
  IF Len(data) > MAX_LOCKFILE_SIZE \/ ~StartsWith(data, LOCKFILE_MAGIC) THEN DecodeErr
  ELSE Decoded(DecodeSections(data))

\* the format check at the end of load
NonzeroFormat(lf) == IF lf.ok /\ lf.lf.format = 0 THEN DecodeErr ELSE lf

\* the JSON documents of this model: {"format":N}, the packages member left
\* to its serde default
JsonPrefix == <<123, 34, 102, 111, 114, 109, 97, 116, 34, 58>>

RECURSIVE trim_start_bytes(_)
trim_start_bytes(txt) ==
  IF Len(txt) > 0 /\ txt[1] \in {9, 10, 13, 32} THEN trim_start_bytes(Tail(txt)) ELSE txt

RECURSIVE ParseDigits(_, _, _)
ParseDigits(txt, i, acc) ==
  IF i > Len(txt) THEN [ok |-> FALSE, pos |-> i, v |-> 0]
  ELSE IF txt[i] \in 48..57 THEN ParseDigits(txt, i + 1, acc * 10 + (txt[i] - 48))
  ELSE [ok |-> i > Len(JsonPrefix) + 1, pos |-> i, v |-> acc]

\* serde_json::from_str::<Lockfile>; returns [ok, lf]
from_str(txt) ==
  IF ~StartsWith(txt, JsonPrefix) THEN DecodeErr
  ELSE LET n == ParseDigits(txt, Len(JsonPrefix) + 1, 0)
       IN IF n.ok /\ n.pos = Len(txt) /\ txt[n.pos] = 125
          THEN [ok |-> TRUE, lf |-> [format |-> n.v, packages |-> << >>]]
          ELSE DecodeErr

\* load without the format check
load_unchecked(data) ==
  IF StartsWith(data, LOCKFILE_MAGIC) THEN decode_current_binary(data)
  ELSE IF StartsWith(trim_start_bytes(data), <<123>>) \/ StartsWith(trim_start_bytes(data), <<91>>)
  THEN from_str(trim_start_bytes(data))
  ELSE DecodeErr

\* load of the bytes of a file: the files that start with the magic, and
\* the text files, which none of the decoders of the previous formats
\* accepts
load(data) ==
  NonzeroFormat(IF StartsWith(data, LOCKFILE_MAGIC) THEN decode_current_binary(data)
                ELSE IF \/ StartsWith(trim_start_bytes(data), <<123>>)
                        \/ StartsWith(trim_start_bytes(data), <<91>>)
                THEN from_str(trim_start_bytes(data))
                ELSE DecodeErr)

\* the bytes fs::write leaves at the path, NoneT when encoding fails
Written(data) == IF data.ok THEN <<data.data>> ELSE NoneT

write(lf) == Written(encode_current_binary(lf))

(***************************************************************************)
(* Lockfile values for the codec.                                          *)
(***************************************************************************)
StrA == <<97>>
StrB == <<98>>
StrRange == <<94, 49, 46, 48>>
\* "", "node_modules/a", "node_modules/b"
CodecKeys ==
  { << >>,
    <<110, 111, 100, 101, 95, 109, 111, 100, 117, 108, 101, 115, 47, 97>>,
    <<110, 111, 100, 101, 95, 109, 111, 100, 117, 108, 101, 115, 47, 98>> }

BlankEntry ==
  [version |-> NoneT, integrity |-> NoneT, resolved |-> NoneT,
   dependencies |-> << >>, dev_dependencies |-> << >>, optional_dependencies |-> << >>,
   peer_dependencies |-> << >>, peer_dependencies_meta |-> << >>,
   os |-> << >>, cpu_arch |-> << >>,
   store_key |-> NoneT, content_hash |-> NoneT, link_mode |-> NoneT, store_path |-> NoneT]

LinkedEntry ==
  [version |-> <<StrRange>>, integrity |-> <<StrA>>, resolved |-> << << >> >>,
   dependencies |-> MapInsert(MapInsert(<< >>, StrB, StrRange), StrA, << >>),
   dev_dependencies |-> MapInsert(<< >>, StrA, StrRange),
   optional_dependencies |-> MapInsert(<< >>, StrB, StrA),
   peer_dependencies |-> MapInsert(MapInsert(<< >>, StrA, StrRange), StrB, StrRange),
   peer_dependencies_meta |-> MapInsert(MapInsert(<< >>, StrA, [optional |-> TRUE]),
                                        StrB, [optional |-> FALSE]),
   os |-> <<StrB, StrA, StrB>>, cpu_arch |-> <<StrA>>,
   store_key |-> <<StrA>>, content_hash |-> <<StrB>>,
   link_mode |-> <<StrA \o StrB>>, store_path |-> <<StrB \o StrA>>]

FilteredEntry ==
  [BlankEntry EXCEPT !.version = <<StrRange>>, !.os = << << >>, StrA>>,
                     !.cpu_arch = <<StrB, StrB>>, !.store_path = << << >> >>,
                     !.link_mode = << << >> >>]

EntryPool == {BlankEntry, LinkedEntry, FilteredEntry}

Formats == {0, 1, 256, 2147483647}

Lockfiles ==
  {[format |-> f, packages |-> p] :
     f \in Formats, p \in UNION {[K -> EntryPool] : K \in SUBSET CodecKeys}}

CodecStart(lf) == [lf |-> lf, enc |-> NoneT, dec |-> NoneT, file |-> NoneT, loaded |-> NoneT]

CodecEncode ==
  /\ pv.enc = NoneT
  /\ pv' = [pv EXCEPT !.enc = <<encode_current_binary(pv.lf)>>]
  /\ UNCHANGED <<ivars, sv, cv>>

CodecDecode ==
  /\ pv.enc # NoneT
  /\ pv.enc[1].ok
  /\ pv.dec = NoneT
  /\ pv' = [pv EXCEPT !.dec = <<decode_current_binary(pv.enc[1].data)>>]
  /\ UNCHANGED <<ivars, sv, cv>>

\* a failed write leaves no file
CodecWritten(file) ==
  /\ pv.file = NoneT
  /\ file # NoneT
  /\ pv' = [pv EXCEPT !.file = file]
  /\ UNCHANGED <<ivars, sv, cv>>

CodecWrite == CodecWritten(write(pv.lf))

CodecLoad ==
  /\ pv.file # NoneT
  /\ pv.loaded = NoneT
  /\ pv' = [pv EXCEPT !.loaded = <<load(pv.file[1])>>]
  /\ UNCHANGED <<ivars, sv, cv>>

CodecNext == CodecEncode \/ CodecDecode \/ CodecWrite \/ CodecLoad

CodecInit ==
  /\ InstallParked /\ StoreParked /\ CacheParked
  /\ \E lf \in Lockfiles : pv = CodecStart(lf)

SpecCodec == CodecInit /\ [][CodecNext]_vars

(***************************************************************************)
(* Properties.                                                             *)
(***************************************************************************)
SecondPlainInstall ==
  /\ pc = "idle"
  /\ last.kind = "install"
  /\ last.afterOk
  /\ Len(last.specs) = 0
  /\ last.err # "flags"

\* C1: an install with no specs that follows a successful install, with
\* nothing changed in between, takes the "already up to date" branch, does
\* not write pacm.lockb and touches nothing under node_modules.
C1_SecondInstallIsNoOp ==
  SecondPlainInstall =>
    /\ last.path = "noop"
    /\ ~last.wroteLock
    /\ ~last.nmTouched

\* the same statement restricted to projects whose facade directory exists
C1_SecondInstallIsNoOpWithFacade == facade => C1_SecondInstallIsNoOp

\* the dependency graph as the packages declare it
WorldNext(n) == PkgDeps(n) \cup PkgOpt(n) \cup (PkgPeer(world, n) \ PkgPeerOpt(n))

RECURSIVE WorldReach(_, _)
WorldReach(frontier, seen) ==
  IF frontier = {} THEN seen
  ELSE LET n == CHOOSE x \in frontier : TRUE
       IN WorldReach((frontier \cup WorldNext(n)) \ (seen \cup {n}), seen \cup {n})

Declared(m) == m.dependencies \cup m.dev_dependencies \cup m.optional_dependencies

\* the last command finished and nothing has happened since
Settled == pc = "idle" /\ last.kind # None /\ last.post = Snapshot(manifest, lockDisk, nm)

InstallOk == Settled /\ last.kind = "install" /\ last.status = "ok"

\* C2: two full-path installs with the same command line, manifest, tarball
\* cache, store and registry end with equal lockfiles (the graph hash and the
\* store key of every package are fields of its entry).
C2_FullInstallsDeterministic ==
  (/\ prevFull.valid
   /\ lastFull.valid
   /\ prevFull.specs = lastFull.specs
   /\ prevFull.manifest = lastFull.manifest
   /\ prevFull.cache = lastFull.cache
   /\ prevFull.store = lastFull.store)
    => prevFull.lock = lastFull.lock

\* roots the previous lockfile declared, the manifest no longer declares and
\* no remaining package needs
DroppedRoots ==
  {R \in RootDeclared(last.pre.lockDisk.lock) \ Declared(last.post.manifest) :
     R \notin WorldReach(Declared(last.post.manifest), {})}

PrunedWith(R) ==
  {n \in WorldReach({R}, {}) :
     /\ Has(last.pre.lockDisk.lock, Key(n))
     /\ n \notin WorldReach(Declared(last.post.manifest), {})}

\* C3: after a successful install without specs that drops a root R, the
\* lockfile has no key for R nor for a package reachable only through R, and
\* their directories under node_modules are gone.
C3_DroppedRootPruned ==
  (InstallOk /\ Len(last.specs) = 0) =>
    \A R \in DroppedRoots : \A n \in PrunedWith(R) \cup {R} :
      /\ ~Has(lockDisk.lock, Key(n))
      /\ n \notin nm.dirs

\* the case of C3 has happened: root a was dropped, a and its dependency c
\* were installed before and are pruned, while root b stays installed
C3_Witness ==
  /\ InstallOk
  /\ Len(last.specs) = 0
  /\ "a" \in DroppedRoots
  /\ "c" \in PrunedWith("a")
  /\ {"a", "c"} \subseteq last.pre.nm.dirs
  /\ lockDisk.exists
  /\ Has(lockDisk.lock, Key("b"))
  /\ "b" \in nm.dirs

\* X is referenced only from a package of an optional branch that the host
\* platform excludes
OptionalFiltered(lk, k, X) ==
  /\ IsPkgKey(k)
  /\ ~platform_supported(lk[k].os, lk[k].cpu_arch)

Closed(lk) ==
  \A k \in DOMAIN lk : \A X \in lk[k].dependencies :
    Has(lk, Key(X)) \/ OptionalFiltered(lk, k, X)

\* C4: after every successful install and every successful remove the
\* lockfile on disk is closed under the dependencies maps of its entries,
\* references from platform-filtered optional packages excepted.
C4_LockfileClosed ==
  (Settled /\ last.status = "ok" /\ lockDisk.exists) => Closed(lockDisk.lock)

\* the same statement for installs alone
C4_ClosedAfterInstall ==
  (InstallOk /\ lockDisk.exists) => Closed(lockDisk.lock)

\* C5: an install that aborts with a fatal error neither creates, rewrites
\* nor deletes pacm.lockb.
C5_FatalLeavesLockfile ==
  (Settled /\ last.kind = "install" /\ last.status = "err") =>
    /\ ~last.wroteLock
    /\ lockDisk = last.pre.lockDisk

\* C6: an install aborted by an integrity mismatch of a non-optional package
\* leaves package.json, pacm.lockb and node_modules as they were.
C6_MismatchLeavesProject ==
  (Settled /\ last.kind = "install" /\ last.status = "err" /\ last.err = "integrity") =>
    /\ manifest = last.pre.manifest
    /\ lockDisk = last.pre.lockDisk
    /\ nm = last.pre.nm

\* C7: a successful install has compared the sha512 hint of every installed
\* package that had one with the digest of the package's tarball.
C7_HintAlwaysCompared ==
  InstallOk => (last.hinted \cap last.installed) \subseteq last.verified

StoreFinished(p) == sv.prod[p].pc \in {"done", "failed"}

\* C8: two producers of the same entry both return successfully, with the
\* same entry.
C8_ProducersConverge ==
  (\A p \in Producers : StoreFinished(p)) =>
    /\ \A p \in Producers : sv.prod[p].ok
    /\ sv.prod[1].entry = sv.prod[2].entry

\* the same statement for producers whose pids differ
C8_DistinctPidsConverge ==
  (sv.prod[1].pid # sv.prod[2].pid) => C8_ProducersConverge

CacheFinished(p) == cv.prod[p].pc \in {"done", "failed"}

\* C9: two producers of the tarball cache, for the same version or for two
\* versions of one package, both return without error, and every cache entry
\* then holds exactly the extracted tree of its own tarball.
C9_CacheProducersSafe ==
  (\A p \in Producers : CacheFinished(p)) =>
    /\ \A p \in Producers : cv.prod[p].ok
    /\ \A b \in cv.entries : cv.dirs[b.id] = ExtractedTree(b.name)

\* C10: a directory at the canonical path of a store entry holds
\* metadata.json and the complete package tree that the metadata describes.
C10_FinalDirComplete ==
  (sv.final # 0) =>
    /\ sv.dirs[sv.final].meta # NoneT
    /\ sv.dirs[sv.final].files = CompleteTree
    /\ sv.dirs[sv.final].meta[1].content_hash = TreeHash(CompleteTree)

\* the same statement for producers whose pids differ
C10_DistinctPidsComplete ==
  (sv.prod[1].pid # sv.prod[2].pid) => C10_FinalDirComplete

\* the canonical directory of the entry the last call asked for
EntryDirOfCall == store_dir_for(compute_graph_hash("a", Ver("a"), pv.args[1].deps).store_key)

EntryCalledOnFinal == pv.result # NoneT /\ EntryDirOfCall \in DOMAIN pv.before

\* C11: an ensure_entry that finds metadata.json at the canonical path
\* returns the recorded values and leaves the store as it was, whatever the
\* source directory holds and whatever integrity it is given.
C11_FinalEntryKept ==
  EntryCalledOnFinal =>
    /\ pv.result[1] = pv.before[EntryDirOfCall]
    /\ pv.store = pv.before

\* a call on a final entry whose source and integrity differ from the recorded ones
C11_Witness ==
  /\ EntryCalledOnFinal
  /\ pv.before[EntryDirOfCall].tree # pv.args[1].source
  /\ pv.before[EntryDirOfCall].integrity # pv.args[1].integrity

\* C12: once the cache entry of a version exists, no step adds, changes or
\* removes a file of its package directory.
C12_CacheEntryKept ==
  [][\A v \in DOMAIN pv.cache : v \in DOMAIN pv'.cache /\ pv'.cache[v] = pv.cache[v]]_vars

\* the same statement for the extracted tree alone
C12_ExtractedTreeKept ==
  [][\A v \in DOMAIN pv.cache :
       v \in DOMAIN pv'.cache /\ pv'.cache[v].tree = pv.cache[v].tree]_vars

\* C13: an ensure of the tarball cache that starts after another one stopped
\* before its rename succeeds and publishes exactly the tree of its own
\* tarball, for the same version and for another version of the package.
C13_OrphanedTmpHarmless ==
  \A p \in Producers :
    (cv.prod[p].late /\ CacheFinished(p)) =>
      /\ cv.prod[p].ok
      /\ CBound(cv.entries, cv.prod[p].version)
      /\ cv.dirs[CId(cv.entries, cv.prod[p].version)] = ExtractedTree(cv.prod[p].version)

\* the same statement for a later ensure of the version that was interrupted
C13_SameVersionHarmless ==
  (cv.prod[1].version = cv.prod[2].version) => C13_OrphanedTmpHarmless

\* the optional dependencies of the installed graph that the host platform excludes
OptionalExcluded ==
  {n \in Names :
     /\ ~platform_supported(PkgOs(world, n), PkgCpu(world, n))
     /\ \/ n \in manifest.optional_dependencies
        \/ \E q \in last.installed : n \in PkgOpt(q)}

NotMaterialized(n) ==
  /\ \A d \in DOMAIN store : store[d].name # n
  /\ n \notin nm.dirs

RecordedAsFiltered(n) ==
  /\ lockDisk.lock[Key(n)].os = PkgOs(world, n)
  /\ lockDisk.lock[Key(n)].cpu_arch = PkgCpu(world, n)
  /\ lockDisk.lock[Key(n)].store_key = NoneT

\* an install with no specs that traversed the manifest's dependencies
TraversedInstall == InstallOk /\ Len(last.specs) = 0 /\ last.path = "full"

\* C14: after a successful install that traversed the manifest, an optional
\* dependency that the host platform excludes has no store entry and no
\* directory under node_modules, and the lockfile has an entry for it that
\* records its os and cpu lists and no store key.
C14_ExcludedOptionalSkipped ==
  TraversedInstall =>
    \A n \in OptionalExcluded :
      /\ NotMaterialized(n)
      /\ lockDisk.exists
      /\ Has(lockDisk.lock, Key(n))
      /\ RecordedAsFiltered(n)

\* the same statement without the existence of the lockfile entry
C14_ExcludedOptionalNotInstalled ==
  TraversedInstall =>
    \A n \in OptionalExcluded :
      /\ NotMaterialized(n)
      /\ (lockDisk.exists /\ Has(lockDisk.lock, Key(n))) => RecordedAsFiltered(n)

\* a traversing install has finished in a world whose host excludes the
\* optional dependency o of the installed package b, and o has a lock entry
C14_Witness ==
  /\ TraversedInstall
  /\ "o" \in OptionalExcluded
  /\ "b" \in nm.dirs
  /\ lockDisk.exists
  /\ Has(lockDisk.lock, Key("o"))

\* the packages an install must have: reached from its seeds through
\* dependencies and non-optional peers, never through an optional edge
MandatoryNext(n) == PkgDeps(n) \cup (PkgPeer(world, n) \ PkgPeerOpt(n))

RECURSIVE MandatoryReach(_, _)
MandatoryReach(frontier, seen) ==
  IF frontier = {} THEN seen
  ELSE LET n == CHOOSE x \in frontier : TRUE
       IN MandatoryReach((frontier \cup MandatoryNext(n)) \ (seen \cup {n}), seen \cup {n})

MandatorySeeds ==
  IF Len(last.specs) = 0
  THEN manifest.dependencies \cup manifest.dev_dependencies
  ELSE {last.specs[i].name : i \in 1..Len(last.specs)}

\* a package whose download cannot succeed: the registry's integrity string
\* does not match the tarball and the cache does not hold the package
Undownloadable(n) == n \in world.hintBad /\ n \notin cache

InstallEnded == Settled /\ last.kind = "install" /\ last.err # "flags"

\* C15: an install in which every package that fails (cannot be downloaded, or
\* is rejected for the platform) is reached only through an optional edge
\* completes successfully, and the failing packages are not installed.
C15_OptionalFailuresAbsorbed ==
  (InstallEnded /\ \A n \in MandatoryReach(MandatorySeeds, {}) : ~Undownloadable(n)) =>
    /\ last.status = "ok"
    /\ \A n \in Names : Undownloadable(n) => NotMaterialized(n)

\* the same statement for optional packages that have no peers of their own
C15_PeerlessOptionalFailuresAbsorbed ==
  (\A n \in Names : Undownloadable(n) => \A q \in Names : n \notin PkgPeer(world, q) \ PkgPeerOpt(q)) =>
    C15_OptionalFailuresAbsorbed

\* C16: for a lockfile whose format is not zero, decoding the bytes of the
\* current encoder gives back the lockfile, equal in every field of every
\* entry, and load after write gives the same value.
C16_CodecRoundTrip ==
  pv.lf.format # 0 =>
    /\ pv.enc # NoneT => pv.enc[1].ok
    /\ pv.dec # NoneT => (pv.dec[1].ok /\ pv.dec[1].lf = pv.lf)
    /\ pv.loaded # NoneT => (pv.loaded[1].ok /\ pv.loaded[1].lf = pv.lf)

\* a lockfile with an entry that has os, cpu and the four store-link fields
\* set has been encoded and decoded, and written and loaded
C16_Witness ==
  /\ pv.lf.format = 2147483647
  /\ \E k \in DOMAIN pv.lf.packages : pv.lf.packages[k] = LinkedEntry
  /\ \E k \in DOMAIN pv.lf.packages : pv.lf.packages[k] = FilteredEntry
  /\ pv.dec # NoneT /\ pv.dec[1].ok
  /\ pv.loaded # NoneT /\ pv.loaded[1].ok

\* no package remains: the manifest declares nothing and a lockfile on disk
\* has no node_modules/ key
NoPackageRemains ==
  /\ Declared(manifest) \cup manifest.peer_dependencies = {}
  /\ \A k \in DOMAIN lockDisk.lock : ~IsPkgKey(k)

\* C17: after a successful install or remove that leaves no package,
\* pacm.lockb does not exist.
C17_NoPackagesNoLockfile ==
  (Settled /\ last.status = "ok" /\ NoPackageRemains) => ~lockDisk.exists

\* the same statement for a remove command that removed a dependency, in a
\* project without a legacy pacm-lock.json
C17_NoPackagesNoLockfileAfterRemove ==
  (last.kind = "remove" /\ last.installed # {} /\ ~world.legacy) => C17_NoPackagesNoLockfile

\* the same statement for installs that start without a legacy pacm-lock.json
C17_NoPackagesNoLockfileAfterInstall ==
  (last.kind = "install" /\ ~world.legacy) => C17_NoPackagesNoLockfile

\* the devDependencies the workspace members of the project declare
WorkspaceDevDependencies ==
  IF WorkspaceNames(world) = {} THEN {} ELSE WsManifest.dev_dependencies

\* an install of a project with workspace members has ended
WorkspaceInstallEnded ==
  /\ InstallEnded
  /\ last.path # "noop"
  /\ WorkspaceDevDependencies # {}
  /\ \A n \in RegistryNames : ~Undownloadable(n)

\* C18: an install of a project whose workspace member declares
\* devDependencies succeeds, and for each such dependency D the lockfile has
\* the key node_modules/D and the directory node_modules/D exists.
C18_WorkspaceDevInstalled ==
  WorkspaceInstallEnded =>
    /\ last.status = "ok"
    /\ \A D \in WorkspaceDevDependencies :
         /\ lockDisk.exists
         /\ Has(lockDisk.lock, Key(D))
         /\ D \in nm.dirs

\* the same statement for projects in which the devDependency is also a
\* dependency of an installed registry package
C18_SharedDevInstalled ==
  (\A D \in WorkspaceDevDependencies :
     \E q \in Declared(manifest) \cap RegistryNames : D \in WorldReach({q}, {})) =>
    C18_WorkspaceDevInstalled

(***************************************************************************)
(* The graph-fingerprint pass (ensure_store_plan) inside an install.       *)
(***************************************************************************)
\* the dependency edges of the lockfile that contribute a fingerprint: the
\* target has an entry with a version, and it is not an optional dependency
\* of the parent that the host's platform excludes
Contributing(lk) ==
  {pd \in Names \X Names :
     /\ Has(lk, Key(pd[1])) /\ Has(lk, Key(pd[2]))
     /\ lk[Key(pd[2])].version # None
     /\ pd[2] \in lk[Key(pd[1])].dependencies \cup lk[Key(pd[1])].dev_dependencies
                    \cup lk[Key(pd[1])].optional_dependencies
                    \cup lk[Key(pd[1])].peer_dependencies
     /\ ~(/\ pd[2] \in lk[Key(pd[1])].optional_dependencies
          /\ ~platform_supported(lk[Key(pd[2])].os, lk[Key(pd[2])].cpu_arch))}

\* the names reachable from the names of S along one or more edges of E
RECURSIVE Descendants(_, _, _)
Descendants(E, S, seen) ==
  LET next == {pd[2] : pd \in {e \in E : e[1] \in S}} \ seen
  IN IF next = {} THEN seen ELSE Descendants(E, next, seen \cup next)

OnCycle(E, n) == n \in Descendants(E, {n}, {})
HasCycle(E) == \E pd \in E : OnCycle(E, pd[1])

\* every dependency edge a lockfile of the project can hold: the edges the
\* manifests of the universe declare (the pass reads a subset of these)
DeclaredEdges(w) ==
  {pd \in Names \X Names :
     \/ /\ pd[1] \in RegistryNames
        /\ pd[2] \in PkgDeps(pd[1]) \cup PkgOpt(pd[1]) \cup PkgPeer(w, pd[1])
     \/ /\ pd[1] \in WorkspaceNames(w)
        /\ pd[2] \in WsManifest.dependencies \cup WsManifest.dev_dependencies
                       \cup WsManifest.optional_dependencies
                       \cup WsPeer(w)}

\* the pass of an install has run over the packages the traversal collected
FingerprintPassed == pc = "materialize"
FingerprintFailed == Settled /\ last.kind = "install" /\ last.err = "store"

\* C19 (second half): when the contributing dependency edges among the
\* installed packages contain no cycle, the fingerprint pass of an install
\* does not fail and every installed package has its store entry in the plan.
C19_AcyclicAllFingerprinted ==
  /\ FingerprintFailed => HasCycle(DeclaredEdges(world))
  /\ FingerprintPassed =>
       \/ HasCycle(Contributing(run.lock))
       \/ run.instances \subseteq DOMAIN run.plan

(***************************************************************************)
(* The fingerprint pass on its own: ensure_store_plan applied to drawn     *)
(* lockfile graphs over three names, followed by the installer only when   *)
(* the pass returned a plan (cmd_install: `ensure_store_plan(..)?` and     *)
(* then Installer::install).                                               *)
(*   a holds its edges as dependencies (to a, b) and as a peer dependency  *)
(*   marked optional (to c), b as peerDependencies (to a),                 *)
(*   devDependencies (to b) and optionalDependencies (to c), c as          *)
(*   optionalDependencies; c's entry may be the one the traversal writes   *)
(*   for a package it skips for the platform, a placeholder without a      *)
(*   version or absent, a may exclude the host, and the entries carry an   *)
(*   integrity or none.                                                    *)
(***************************************************************************)
GraphNames == {"a", "b", "c"}

GraphEntry(version, deps, dev, opt, peer, os) ==
  [EmptyEntry EXCEPT !.version = version, !.dependencies = deps,
                     !.dev_dependencies = dev, !.optional_dependencies = opt,
                     !.peer_dependencies = peer, !.os = os]

GraphLock(ea, eb, ec, cstate, blockedA) ==
  LET base == Put(Put(DefaultLock, Key("a"),
                      [GraphEntry(Ver("a"), ea \ {"c"}, {}, {}, ea \cap {"c"},
                                  IF blockedA THEN BlockHostOs ELSE <<>>)
                         EXCEPT !.peer_optional = ea \cap {"c"}]),
                  Key("b"),
                  GraphEntry(Ver("b"), {}, eb \cap {"b"}, eb \cap {"c"},
                             eb \cap {"a"}, <<>>))
  IN IF cstate = "absent" THEN base
     ELSE Put(base, Key("c"),
              GraphEntry(IF cstate = "placeholder" THEN None ELSE Ver("c"),
                         {}, {}, ec, {},
                         IF cstate = "excluded" THEN BlockHostOs ELSE <<>>))

\* the traversal writes a versioned entry for every instance it collects
GraphInputs ==
  {[lk |-> [k \in DOMAIN GraphLock(ea, eb, ec, cstate, blockedA) |->
              IF integ /\ IsPkgKey(k)
              THEN [GraphLock(ea, eb, ec, cstate, blockedA)[k]
                      EXCEPT !.integrity = Digest(StripPrefix(k))]
              ELSE GraphLock(ea, eb, ec, cstate, blockedA)[k]],
    inst |-> inst] :
     ea \in SUBSET GraphNames, eb \in SUBSET GraphNames, ec \in SUBSET GraphNames,
     cstate \in {"entry", "excluded", "placeholder", "absent"}, blockedA \in BOOLEAN,
     integ \in BOOLEAN, inst \in (SUBSET GraphNames) \ {{}}}

FingerprintStart(in) ==
  [lk |-> in.lk, inst |-> in.inst, stage |-> "start", err |-> None,
   plan |-> << >>, calls |-> << >>, linked |-> {}]

FingerprintPlanned(sp) ==
  /\ pv' = [pv EXCEPT !.stage = "planned", !.err = sp.err, !.plan = sp.plan,
                      !.calls = sp.calls]
  /\ UNCHANGED <<ivars, sv, cv>>

FingerprintPlan ==
  /\ pv.stage = "start"
  /\ FingerprintPlanned(ensure_store_plan(<< >>, pv.lk, pv.inst, GraphNames))

\* `?` on the result of ensure_store_plan: cmd_install returns the error
FingerprintAbort ==
  /\ pv.stage = "planned"
  /\ pv.err # None
  /\ pv' = [pv EXCEPT !.stage = "failed"]
  /\ UNCHANGED <<ivars, sv, cv>>

\* Installer::install links every package of the plan
FingerprintLink ==
  /\ pv.stage = "planned"
  /\ pv.err = None
  /\ pv' = [pv EXCEPT !.stage = "linked", !.linked = DOMAIN pv.plan]
  /\ UNCHANGED <<ivars, sv, cv>>

FingerprintNext == FingerprintPlan \/ FingerprintAbort \/ FingerprintLink

FingerprintInit ==
  /\ InstallParked /\ StoreParked /\ CacheParked
  /\ \E in \in {g \in GraphInputs :
                  \A n \in g.inst : Has(g.lk, Key(n)) /\ g.lk[Key(n)].version # None} :
       pv = FingerprintStart(in)

SpecFingerprint == FingerprintInit /\ [][FingerprintNext]_vars

\* the packages the pass visits, and whether one of them lies on a cycle
Visited(lk, inst) == Descendants(Contributing(lk), inst, inst)
CycleReached(lk, inst) == \E n \in Visited(lk, inst) : OnCycle(Contributing(lk), n)

\* C19 (the pass on its own): the pass fails with the cyclic-dependency
\* error exactly when a package it visits lies on a cycle of contributing
\* edges, and then nothing is linked; otherwise it returns a plan that holds
\* every instance.
C19_CycleDetection ==
  pv.stage # "start" =>
    /\ (pv.err = "cyclic dependency") <=> CycleReached(pv.lk, pv.inst)
    /\ pv.err # None => pv.linked = {}
    /\ ~CycleReached(pv.lk, pv.inst) =>
         pv.err = None /\ pv.inst \subseteq DOMAIN pv.plan

\* a cycle through a peer edge is found, and a shared dependency is not one
C19_CycleFound ==
  /\ pv.stage = "failed"
  /\ pv.err = "cyclic dependency"
  /\ <<"b", "a">> \in Contributing(pv.lk)
  /\ <<"a", "b">> \in Contributing(pv.lk)

C19_DiamondPlanned ==
  /\ pv.stage = "linked"
  /\ {<<"a", "b">>, <<"a", "c">>, <<"b", "c">>} \subseteq Contributing(pv.lk)
  /\ pv.linked = pv.inst

(***************************************************************************)
(* The installer (installer/mod.rs): Installer::install runs one task per  *)
(* plan entry on the rayon pool; a task materializes the package directory *)
(* and then writes a shim under node_modules/.bin for every entry of the   *)
(* package's bin field.                                                    *)
(*   pv = [in, dirs, bin, inode, fresh, task, mode, lock, result]          *)
(*   bin maps a shim name to the inode its path names (0: no such file),   *)
(*   inode maps an inode to the file's content, a task holds the inode of  *)
(*   the file it has open.                                                 *)
(***************************************************************************)
\* keys of bin maps, in the order of the BTreeMap: "@s/x" < "x" < "y"
BinKeyOrder == <<<<"@s", "x">>, <<"x">>, <<"y">>>>
BinKeys == {BinKeyOrder[i] : i \in 1..Len(BinKeyOrder)}
SortedBinKeys(S) == SelectSeq(BinKeyOrder, LAMBDA k : k \in S)

\* bin_name[(rfind('/') + 1)..]
ShimName(key) == key[Len(key)]
ShimNames == {ShimName(k) : k \in BinKeys}

ShimBinary == <<"pacm-shim">>
Trailer(n, key) == <<"PACM_SHIM", n, key>>
Wrapper(n, key) == <<<<"sh", n, key>>>>

PlanNames == {"a", "b", "c"}
MaxInodes == 6

\* the plans: the bin field of each package's installed package.json, and
\* whether the packaged shim binary is found next to the executable
\* the installer's mode, the packages whose tree can be hard-linked, the
\* packages the lockfile has an entry for, and the packages whose
\* destination cannot be written
InstallerSettings ==
  {[mode |-> "link", linkable |-> PlanNames, locked |-> PlanNames, unwritable |-> {}],
   [mode |-> "link", linkable |-> {"a"}, locked |-> {"a", "b"}, unwritable |-> {}],
   [mode |-> "copy", linkable |-> PlanNames, locked |-> {"b", "c"}, unwritable |-> {}],
   [mode |-> "link", linkable |-> {"a"}, locked |-> PlanNames, unwritable |-> {"b"}]}

InstallerInputs ==
  {[bins |-> [n \in ns |-> IF n = "a" THEN ba ELSE IF n = "b" THEN bb ELSE bc],
    shimBin |-> sb, mode |-> e.mode, linkable |-> e.linkable, locked |-> e.locked,
    unwritable |-> e.unwritable] :
     ns \in {{"a", "b"}, {"a", "b", "c"}},
     ba \in {{}, {<<"@s", "x">>}, {<<"x">>, <<"y">>}},
     bb \in {{}, {<<"x">>}, {<<"y">>}},
     bc \in {{}, {<<"y">>}},
     sb \in BOOLEAN,
     e \in InstallerSettings}

\* the store entry of a plan package
StoreEntryOf(n) ==
  [store_key |-> <<"key", n>>, content_hash |-> <<"sha256", n>>, root_dir |-> <<"store", n>>]

\* the four fields of a lockfile entry that an earlier install wrote
Stamp(key, hash, mode, path) ==
  [store_key |-> key, content_hash |-> hash, link_mode |-> mode, store_path |-> path]
EarlierStamp == Stamp(<<"key", "old">>, <<"sha256", "old">>, "link", <<"store", "old">>)

IdleTask == [pc |-> "todo", binq |-> << >>, fd |-> 0]

InstallerStart(in) ==
  [in |-> in, dirs |-> {}, bin |-> [b \in ShimNames |-> 0],
   inode |-> [i \in 1..MaxInodes |-> << >>], fresh |-> 1,
   task |-> [n \in DOMAIN in.bins |-> IdleTask],
   mode |-> [n \in DOMAIN in.bins |-> None],
   lock |-> [n \in in.locked |-> EarlierStamp], result |-> NoneT]

\* the next entry of the bin field, or the end of the task
NextShim(q) ==
  IF Len(q) = 0 THEN [pc |-> "done", binq |-> << >>, fd |-> 0]
  ELSE [pc |-> "remove", binq |-> q, fd |-> 0]

\* materialize, then the head of create_bin_shims: the destinations of two
\* plan entries differ, so the directory is written by this task only
MaterializeDir(st, n) ==
  IF n \in st.in.unwritable THEN [st EXCEPT !.task[n].pc = "failed"]
  ELSE [st EXCEPT !.dirs = @ \cup {n},
                  !.mode[n] = IF st.in.mode = "copy" THEN "copy"
                              ELSE IF n \in st.in.linkable THEN "link" ELSE "copy",
                  !.task[n] = NextShim(SortedBinKeys(st.in.bins[n]))]

\* if dest.exists() { let _ = fs::remove_file(dest); }
RemoveShim(st, n) ==
  LET b == ShimName(Head(st.task[n].binq))
  IN [st EXCEPT !.bin[b] = 0,
                !.task[n].pc = IF st.in.shimBin THEN "copy" ELSE "create"]

\* open(dest) with create and truncate: the inode the path names afterwards
Opened(st, b) == IF st.bin[b] = 0 THEN st.fresh ELSE st.bin[b]

\* fs::copy(&shim_bin, dest)
CopyShim(st, n) ==
  LET b == ShimName(Head(st.task[n].binq))
      i == Opened(st, b)
  IN [st EXCEPT !.bin[b] = i, !.inode[i] = ShimBinary,
                !.fresh = IF st.bin[b] = 0 THEN @ + 1 ELSE @,
                !.task[n].pc = "append"]

\* OpenOptions::new().append(true).open(dest)? and the write of the trailer
AppendTrailer(st, n) ==
  LET key == Head(st.task[n].binq)
      b == ShimName(key)
  IN IF st.bin[b] = 0 THEN [st EXCEPT !.task[n].pc = "failed"]
     ELSE [st EXCEPT !.inode[st.bin[b]] = Append(@, Trailer(n, key)),
                     !.task[n].pc = "chmod"]

\* File::create(dest)?
CreateWrapper(st, n) ==
  LET b == ShimName(Head(st.task[n].binq))
      i == Opened(st, b)
  IN [st EXCEPT !.bin[b] = i, !.inode[i] = << >>,
                !.fresh = IF st.bin[b] = 0 THEN @ + 1 ELSE @,
                !.task[n].fd = i, !.task[n].pc = "write"]

\* f.write_all(script): written at offset 0 of the open file (the wrappers
\* of the model have the same length)
WriteWrapper(st, n) ==
  [st EXCEPT !.inode[st.task[n].fd] = Wrapper(n, Head(st.task[n].binq)),
             !.task[n].pc = "chmod"]

\* fs::metadata(dest)?.permissions() and set_permissions(dest, 0o755)
ChmodShim(st, n) ==
  LET b == ShimName(Head(st.task[n].binq))
  IN IF st.bin[b] = 0 THEN [st EXCEPT !.task[n].pc = "failed"]
     ELSE [st EXCEPT !.task[n] = NextShim(Tail(st.task[n].binq))]

InFlight(st) == {n \in DOMAIN st.task : st.task[n].pc \notin {"todo", "done", "failed"}}
Failed(st) == {n \in DOMAIN st.task : st.task[n].pc = "failed"}

\* the loop over the results: the lockfile entries of the plan packages
SerialPass(st) ==
  [n \in DOMAIN st.lock |->
     IF n \in DOMAIN st.task
     THEN Stamp(StoreEntryOf(n).store_key, StoreEntryOf(n).content_hash, st.mode[n],
                StoreEntryOf(n).root_dir)
     ELSE st.lock[n]]

\* the loop over the results run although a task failed
Collected_despite_failure(st) ==
  IF Failed(st) # {}
  THEN [st EXCEPT !.result = <<[status |-> "err", outcomes |-> << >>]>>,
                  !.lock = SerialPass(st)]
  ELSE [st EXCEPT !.result = <<[status |-> "ok",
                                outcomes |-> SortedNames(DOMAIN st.task)]>>,
                  !.lock = SerialPass(st)]

\* the collect of the parallel iterator and the loop over its results
Collected(st) ==
  IF Failed(st) # {} THEN [st EXCEPT !.result = <<[status |-> "err", outcomes |-> << >>]>>]
  ELSE [st EXCEPT !.result = <<[status |-> "ok",
                                outcomes |-> SortedNames(DOMAIN st.task)]>>,
                  !.lock = SerialPass(st)]

Joinable(st) ==
  /\ st.result = NoneT
  /\ InFlight(st) = {}
  /\ Failed(st) # {} \/ \A n \in DOMAIN st.task : st.task[n].pc = "done"

InstallerAt(n, at, st2) ==
  /\ pv.result = NoneT
  /\ pv.task[n].pc = at
  /\ pv' = st2
  /\ UNCHANGED <<ivars, sv, cv>>

InstallerMaterialize == \E n \in DOMAIN pv.task : InstallerAt(n, "todo", MaterializeDir(pv, n))
InstallerRemoveShim == \E n \in DOMAIN pv.task : InstallerAt(n, "remove", RemoveShim(pv, n))
InstallerCopyShim == \E n \in DOMAIN pv.task : InstallerAt(n, "copy", CopyShim(pv, n))
InstallerAppendTrailer == \E n \in DOMAIN pv.task : InstallerAt(n, "append", AppendTrailer(pv, n))
InstallerCreateWrapper == \E n \in DOMAIN pv.task : InstallerAt(n, "create", CreateWrapper(pv, n))
InstallerWriteWrapper == \E n \in DOMAIN pv.task : InstallerAt(n, "write", WriteWrapper(pv, n))
InstallerChmodShim == \E n \in DOMAIN pv.task : InstallerAt(n, "chmod", ChmodShim(pv, n))

InstallerJoin ==
  /\ Joinable(pv)
  /\ pv' = Collected(pv)
  /\ UNCHANGED <<ivars, sv, cv>>

InstallerNext ==
  \/ InstallerMaterialize
  \/ InstallerRemoveShim
  \/ InstallerCopyShim
  \/ InstallerAppendTrailer
  \/ InstallerCreateWrapper
  \/ InstallerWriteWrapper
  \/ InstallerChmodShim
  \/ InstallerJoin

InstallerInit ==
  /\ InstallParked /\ StoreParked /\ CacheParked
  /\ \E in \in InstallerInputs : pv = InstallerStart(in)

SpecInstaller == InstallerInit /\ [][InstallerNext]_vars

\* one task run from its start to its end with no other task in between
TaskStep(st, n) ==
  CASE st.task[n].pc = "todo" -> MaterializeDir(st, n)
    [] st.task[n].pc = "remove" -> RemoveShim(st, n)
    [] st.task[n].pc = "copy" -> CopyShim(st, n)
    [] st.task[n].pc = "append" -> AppendTrailer(st, n)
    [] st.task[n].pc = "create" -> CreateWrapper(st, n)
    [] st.task[n].pc = "write" -> WriteWrapper(st, n)
    [] st.task[n].pc = "chmod" -> ChmodShim(st, n)

RECURSIVE RunTask(_, _)
RunTask(st, n) ==
  IF st.task[n].pc \in {"done", "failed"} THEN st ELSE RunTask(TaskStep(st, n), n)

\* the tasks run one after the other in the given order of the names
RECURSIVE RunInOrder(_, _, _)
RunInOrder(st, order, i) ==
  IF i > Len(order) THEN Collected(st)
  ELSE RunInOrder(RunTask(st, order[i]), order, i + 1)

Orderings(S) ==
  {o \in [1..Cardinality(S) -> S] : \A i, j \in 1..Cardinality(S) : o[i] = o[j] => i = j}

\* what an install leaves behind: the package directories, the shims under
\* node_modules/.bin with their contents, and the returned outcomes
Contents(st) ==
  [dirs |-> st.dirs,
   bin |-> [b \in {x \in ShimNames : st.bin[x] # 0} |-> st.inode[st.bin[b]]],
   result |-> st.result]

\* the paths under node_modules/.bin each task writes
ShimPaths(in, n) == {ShimName(k) : k \in in.bins[n]}
DisjointShims(in) ==
  \A n, m \in DOMAIN in.bins : n # m => ShimPaths(in, n) \cap ShimPaths(in, m) = {}

\* C20: the final contents of node_modules and the returned outcomes of an
\* install are the same for every interleaving of the materialization tasks
\* and every ordering of the package names: they are what running the
\* tasks one after the other, in any order, leaves behind.
C20_InterleavingIndependent ==
  pv.result # NoneT =>
    \A o \in Orderings(DOMAIN pv.task) :
      Contents(pv) = Contents(RunInOrder(InstallerStart(pv.in), o, 1))

\* the same statement for plans in which no two packages declare a bin entry
\* of the same shim name and every destination can be written
C20_DisjointShimsIndependent ==
  (DisjointShims(pv.in) /\ pv.in.unwritable = {}) => C20_InterleavingIndependent

\* the link mode the installer reports for a package: a copy in copy mode
\* and when the tree could not be hard-linked
OutcomeOf(in, n) ==
  IF in.mode = "link" /\ n \in in.linkable THEN "link" ELSE "copy"

LockBefore(in) == [n \in in.locked |-> EarlierStamp]

\* C27: the lockfile entries change only in the pass that follows the join
\* of all materialization tasks; when a materialization or a shim creation
\* failed the install returns the error and no lockfile entry has changed;
\* when all succeeded every plan package that has a lockfile entry holds
\* the storeKey, contentHash and storePath of its store entry and the
\* linkMode "link" or "copy" of its outcome.
C27_SerialLockPass ==
  /\ [](/\ pv.result = NoneT => pv.lock = LockBefore(pv.in)
        /\ (pv.result # NoneT /\ pv.result[1].status = "err") =>
              pv.lock = LockBefore(pv.in)
        /\ (pv.result # NoneT /\ pv.result[1].status = "ok") =>
              \A n \in DOMAIN pv.lock :
                IF n \in DOMAIN pv.task
                THEN /\ pv.lock[n].store_key = StoreEntryOf(n).store_key
                     /\ pv.lock[n].content_hash = StoreEntryOf(n).content_hash
                     /\ pv.lock[n].store_path = StoreEntryOf(n).root_dir
                     /\ pv.lock[n].link_mode = OutcomeOf(pv.in, n)
                ELSE pv.lock[n] = EarlierStamp)
  /\ [][pv'.lock # pv.lock =>
          /\ InFlight(pv) = {}
          /\ \A n \in DOMAIN pv.task : pv.task[n].pc = "done"
          /\ pv.result = NoneT /\ pv'.result # NoneT]_vars

\* an install in link mode that succeeded: a was linked, b was copied, c
\* has no lockfile entry
C27_Witness ==
  /\ pv.result # NoneT
  /\ pv.result[1].status = "ok"
  /\ pv.in.mode = "link"
  /\ DOMAIN pv.task = PlanNames
  /\ DOMAIN pv.lock = {"a", "b"}
  /\ pv.lock["a"].link_mode = "link"
  /\ pv.lock["b"].link_mode = "copy"

\* an install that failed in the shim of one package after the directories
\* of all packages were written
C27_FailedAfterMaterialize ==
  /\ pv.result # NoneT
  /\ pv.result[1].status = "err"
  /\ pv.dirs = DOMAIN pv.task
  /\ pv.lock = LockBefore(pv.in)

(***************************************************************************)
(* SpecPlatform: platform_supported applied to drawn os and cpu lists.     *)
(***************************************************************************)
MaxList == 2
OtherOs == "darwin"
OtherCpu == "arm64"
Entries(host, other) ==
  {<<host>>, <<"!", host>>, <<other>>, <<"!", other>>, <<"!", "!", host>>}
ListsOf(pool) == UNION {[1..n -> pool] : n \in 0..MaxList}

PlatformStart(os, cpu) == [os |-> os, cpu |-> cpu, result |-> NoneT]

PlatformCall ==
  /\ pv.result = NoneT
  /\ pv' = [pv EXCEPT !.result = <<platform_supported(pv.os, pv.cpu)>>]
  /\ UNCHANGED <<ivars, sv, cv>>

PlatformNext == PlatformCall

PlatformInit ==
  /\ InstallParked /\ StoreParked /\ CacheParked
  /\ \E os \in ListsOf(Entries(HostOs, OtherOs)),
        cpu \in ListsOf(Entries(HostCpu, OtherCpu)) : pv = PlatformStart(os, cpu)

SpecPlatform == PlatformInit /\ [][PlatformNext]_vars

\* the statement of acceptance, entry by entry
Negated(e) == Len(e) > 0 /\ e[1] = "!"
AppearsNegated(list, host) == \E i \in 1..Len(list) : list[i] = <<"!", host>>
UnNegated(list) == {i \in 1..Len(list) : ~Negated(list[i])}
Accepts(list, host) ==
  /\ ~AppearsNegated(list, host)
  /\ UnNegated(list) = {} \/ \E i \in UnNegated(list) : list[i] = <<host>>

\* C22: platform_supported(os, cpu) is true exactly when both lists accept
\* the host, each on its own: a list accepts iff the host is not one of its
\* negated entries and the list has no un-negated entry or the host is one
\* of them; an empty list accepts.
C22_PlatformSupported ==
  pv.result # NoneT =>
    pv.result[1] = (Accepts(pv.os, HostOs) /\ Accepts(pv.cpu, HostCpu))

\* a list that both allows and blocks the host, beside an empty list
C22_Witness ==
  /\ pv.result = <<FALSE>>
  /\ pv.os = << <<HostOs>>, <<"!", HostOs>> >>
  /\ pv.cpu = << >>

\* a list of negated entries only, none of them the host, accepts
C22_NegatedOnly ==
  /\ pv.result = <<TRUE>>
  /\ pv.os = << <<"!", OtherOs>> >>
  /\ pv.cpu = << <<"!", OtherCpu>>, <<HostCpu>> >>

(***************************************************************************)
(* SpecSync: Lockfile::sync_from_manifest applied once and once more to    *)
(* drawn lockfiles and manifests.                                          *)
(***************************************************************************)
NextVersion == "2.0.0"
SyncManifests ==
  {[version |-> v, dependencies |-> d, dev_dependencies |-> dv,
    optional_dependencies |-> o, peer_dependencies |-> p] :
     v \in {ManifestVersion, NextVersion}, d \in SUBSET {"a", "b"},
     dv \in SUBSET {"b"}, o \in SUBSET {"o"}, p \in SUBSET {"a", "c"}}

\* an entry as an earlier install left it
ResolvedEntry(n) ==
  [EmptyEntry EXCEPT !.version = Ver(n), !.integrity = <<Digest(n)>>,
                     !.dependencies = PkgDeps(n), !.os = BlockHostOs,
                     !.store_key = <<n>>, !.content_hash = <<n>>,
                     !.link_mode = "link"]
OldRoot ==
  [EmptyEntry EXCEPT !.version = ManifestVersion, !.dependencies = {"a", "c"},
                     !.peer_dependencies = {"b"}]
SyncLocks ==
  {DefaultLock,
   LegacyLock,
   Put(DefaultLock, Key("a"), ResolvedEntry("a")),
   Put(Put(DefaultLock, RootKey, OldRoot), Key("a"), ResolvedEntry("a")),
   Put(Put(Put(DefaultLock, RootKey, OldRoot), Key("a"), ResolvedEntry("a")),
       Key("c"), ResolvedEntry("c")),
   Put(Put(DefaultLock, RootKey, OldRoot), Key("o"), EmptyEntry)}

SyncStart(lk, m) == [lock |-> lk, manifest |-> m, once |-> NoneT, twice |-> NoneT]

SyncOnce ==
  /\ pv.once = NoneT
  /\ pv' = [pv EXCEPT !.once = <<sync_from_manifest(pv.lock, pv.manifest)>>]
  /\ UNCHANGED <<ivars, sv, cv>>

SyncAgain ==
  /\ pv.once # NoneT
  /\ pv.twice = NoneT
  /\ pv' = [pv EXCEPT !.twice = <<sync_from_manifest(pv.once[1], pv.manifest)>>]
  /\ UNCHANGED <<ivars, sv, cv>>

SyncNext == SyncOnce \/ SyncAgain

SyncInit ==
  /\ InstallParked /\ StoreParked /\ CacheParked
  /\ \E lk \in SyncLocks, m \in SyncManifests : pv = SyncStart(lk, m)

SpecSync == SyncInit /\ [][SyncNext]_vars

Installable(m) ==
  m.dependencies \cup m.dev_dependencies \cup m.optional_dependencies

Synced(lk0, m, lk) ==
  /\ Has(lk, RootKey)
  /\ lk[RootKey].version = m.version
  /\ lk[RootKey].dependencies = m.dependencies
  /\ lk[RootKey].dev_dependencies = m.dev_dependencies
  /\ lk[RootKey].optional_dependencies = m.optional_dependencies
  /\ lk[RootKey].peer_dependencies = m.peer_dependencies
  /\ \A n \in Installable(m) : Has(lk, Key(n))
  /\ \A n \in m.peer_dependencies \ Installable(m) :
       Has(lk, Key(n)) => Has(lk0, Key(n))
  /\ \A k \in DOMAIN lk0 : IsPkgKey(k) => Has(lk, k) /\ lk[k] = lk0[k]

\* C23: after sync_from_manifest the root entry exists and carries the
\* manifest's version and four dependency maps; node_modules/N exists for
\* every N declared in dependencies, devDependencies or
\* optionalDependencies and none is created for a name declared only as a
\* peer; package entries that already existed keep all their fields; and a
\* second application with the same manifest changes nothing.
C23_SyncFromManifest ==
  /\ pv.once # NoneT => Synced(pv.lock, pv.manifest, pv.once[1])
  /\ pv.twice # NoneT => pv.twice[1] = pv.once[1]

\* a lockfile with an older root and a resolved entry, a manifest of another
\* version that declares that entry, a new name and a peer-only name
C23_Witness ==
  /\ pv.twice # NoneT
  /\ pv.lock = Put(Put(DefaultLock, RootKey, OldRoot), Key("a"), ResolvedEntry("a"))
  /\ pv.manifest.version = NextVersion
  /\ pv.manifest.dependencies = {"a", "b"}
  /\ pv.manifest.peer_dependencies = {"c"}
  /\ ~Has(pv.once[1], Key("c"))
  /\ pv.once[1][Key("b")] = EmptyEntry

(***************************************************************************)
(* The integrity comparison of ensure_cached_package (SpecDownload).       *)
(***************************************************************************)
\* the hint begins with sha512-, decodes, and differs from the digest of the bytes
HintDiffers(call) ==
  /\ call.hint # NoneT
  /\ call.hint[1] = "sha512"
  /\ call.hint[2] # Undecodable
  /\ call.hint # TarDigest(call.bytes)

EnsureReturned == pv'.calls = pv.calls + 1

\* C25: an ensure whose sha512 hint decodes to a digest other than that of
\* the supplied bytes fails with an integrity mismatch whether or not the
\* entry's package directory exists, and creates and changes nothing in the
\* cache; an existing entry is returned early only by a call whose
\* comparison passed.
C25_MismatchBeforeMarker ==
  [][EnsureReturned =>
       /\ HintDiffers(pv'.last[1]) =>
            /\ ~pv'.last[1].ok
            /\ pv'.last[1].err = "integrity mismatch"
            /\ pv'.cache = pv.cache
       /\ (pv'.last[1].ok /\ pv'.last[1].existed) => ~HintDiffers(pv'.last[1])]_vars

\* a mismatching call for a version that is already in the cache
C25_Witness ==
  /\ pv.last # NoneT
  /\ HintDiffers(pv.last[1])
  /\ pv.last[1].existed
  /\ ~pv.last[1].ok

\* a mismatching call for a version that is not in the cache
C25_MismatchAbsent ==
  /\ pv.last # NoneT
  /\ HintDiffers(pv.last[1])
  /\ ~pv.last[1].existed
  /\ pv.last[1].version \notin DOMAIN pv.cache

(***************************************************************************)
(* The resolver (resolver/mod.rs).  A string is the sequence of its        *)
(* characters, so that trimming, splitting, formatting and parsing are     *)
(* computed on the text itself.                                            *)
(***************************************************************************)
Digits == <<"0", "1", "2", "3", "4", "5", "6", "7", "8", "9">>
is_ascii_digit(c) == \E i \in 1..10 : Digits[i] = c
DigitValue(c) == (CHOOSE i \in 1..10 : Digits[i] = c) - 1
Letters ==
  {"a", "b", "c", "e", "f", "l", "o", "r", "s", "t", "x", "X"}

RECURSIVE trim_start(_)
trim_start(s) == IF Len(s) > 0 /\ s[1] = " " THEN trim_start(Tail(s)) ELSE s
RECURSIVE trim_end(_)
trim_end(s) ==
  IF Len(s) > 0 /\ s[Len(s)] = " " THEN trim_end(SubSeq(s, 1, Len(s) - 1)) ELSE s
trim(s) == trim_end(trim_start(s))

starts_with(s, pre) == Len(s) >= Len(pre) /\ SubSeq(s, 1, Len(pre)) = pre
ends_with(s, suf) ==
  Len(s) >= Len(suf) /\ SubSeq(s, Len(s) - Len(suf) + 1, Len(s)) = suf
Skip(s, n) == SubSeq(s, n + 1, Len(s))
FoundAt(s, sub) == {i \in 1..(Len(s) - Len(sub) + 1) : SubSeq(s, i, i + Len(sub) - 1) = sub}
contains(s, sub) == FoundAt(s, sub) # {}
\* str::find: the first position, counted from 1
find(s, sub) == CHOOSE i \in FoundAt(s, sub) : \A j \in FoundAt(s, sub) : i <= j

\* str::split(sep): the pieces between the occurrences of sep, left to right
RECURSIVE split(_, _)
split(s, sep) ==
  IF contains(s, sep)
  THEN <<SubSeq(s, 1, find(s, sep) - 1)>> \o split(Skip(s, find(s, sep) + Len(sep) - 1), sep)
  ELSE <<s>>

RECURSIVE split_whitespace(_)
split_whitespace(s) ==
  IF trim_start(s) = << >> THEN << >>
  ELSE IF contains(trim_start(s), <<" ">>)
  THEN <<SubSeq(trim_start(s), 1, find(trim_start(s), <<" ">>) - 1)>>
         \o split_whitespace(Skip(trim_start(s), find(trim_start(s), <<" ">>)))
  ELSE <<trim_start(s)>>

RECURSIVE Concat(_)
Concat(ss) == IF ss = << >> THEN << >> ELSE Head(ss) \o Concat(Tail(ss))

\* [String]::join(sep)
RECURSIVE join(_, _)
join(ss, sep) ==
  IF Len(ss) = 0 THEN << >>
  ELSE IF Len(ss) = 1 THEN ss[1]
  ELSE ss[1] \o sep \o join(Tail(ss), sep)

RECURSIVE DigitsValue(_, _)
DigitsValue(s, acc) ==
  IF s = << >> THEN acc ELSE DigitsValue(Tail(s), 10 * acc + DigitValue(s[1]))

is_numeric(t) == Len(t) > 0 /\ \A i \in 1..Len(t) : is_ascii_digit(t[i])

\* str::parse::<u64>: digits after an optional plus sign; Some(n) or None
parse_u64(t) ==
  IF is_numeric(t) THEN <<DigitsValue(t, 0)>>
  ELSE IF Len(t) > 1 /\ t[1] = "+" /\ is_numeric(Tail(t)) THEN <<DigitsValue(Tail(t), 0)>>
  ELSE NoneT

\* the decimal text of a number
RECURSIVE to_string(_)
to_string(n) ==
  IF n < 10 THEN <<Digits[n + 1]>> ELSE to_string(n \div 10) \o <<Digits[(n % 10) + 1]>>

is_op(t) ==
  t \in {<<">">>, <<"<">>, <<">", "=">>, <<"<", "=">>, <<"=">>, <<"^">>, <<"~">>}

count_dots(t) == Cardinality({i \in 1..Len(t) : t[i] = "."})

is_version_like(t) ==
  /\ \A i \in 1..Len(t) :
       is_ascii_digit(t[i]) \/ t[i] \in {".", "-", "*"} \/ t[i] \in Letters
  /\ \E i \in 1..Len(t) : is_ascii_digit(t[i])

IsWild(part) == part \in {<<"x">>, <<"X">>, <<"*">>}

expand_wildcard(pattern) ==
  LET parts == split(pattern, <<".">>)
  IN IF Len(parts) = 2 /\ IsWild(parts[2]) /\ parse_u64(parts[1]) # NoneT
     THEN <<">", "=">> \o to_string(parse_u64(parts[1])[1]) \o <<".", "0", ".", "0", ",", " ", "<">>
            \o to_string(parse_u64(parts[1])[1] + 1) \o <<".", "0", ".", "0">>
     ELSE IF /\ Len(parts) = 3 /\ IsWild(parts[3])
             /\ parse_u64(parts[1]) # NoneT /\ parse_u64(parts[2]) # NoneT
     THEN <<">", "=">> \o to_string(parse_u64(parts[1])[1]) \o <<".">>
            \o to_string(parse_u64(parts[2])[1]) \o <<".", "0", ",", " ", "<">>
            \o to_string(parse_u64(parts[1])[1]) \o <<".">>
            \o to_string(parse_u64(parts[2])[1] + 1) \o <<".", "0">>
     ELSE pattern

(***************************************************************************)
(* The semver crate as the resolver uses it: Version::parse,               *)
(* VersionReq::from_str and VersionReq::matches.  A parser returns         *)
(* [ok, v, rest]; a version is [major, minor, patch, pre, build] with pre  *)
(* and build the sequences of their dot-separated identifiers.             *)
(***************************************************************************)
ParseErr == [ok |-> FALSE]
Parsed(v, rest) == [ok |-> TRUE, v |-> v, rest |-> rest]
Try(r, Rest(_)) == IF r.ok THEN Rest(r) ELSE ParseErr

RECURSIVE DigitsPrefix(_)
DigitsPrefix(s) ==
  IF Len(s) > 0 /\ is_ascii_digit(s[1]) THEN <<s[1]>> \o DigitsPrefix(Tail(s)) ELSE << >>

IsIdentChar(c) == is_ascii_digit(c) \/ c \in Letters \/ c = "-"
RECURSIVE IdentPrefix(_)
IdentPrefix(s) ==
  IF Len(s) > 0 /\ (IsIdentChar(s[1]) \/ s[1] = ".")
  THEN <<s[1]>> \o IdentPrefix(Tail(s)) ELSE << >>

NumericId(ds, text) ==
  IF Len(ds) = 0 \/ (Len(ds) > 1 /\ ds[1] = "0") THEN ParseErr
  ELSE Parsed(DigitsValue(ds, 0), Skip(text, Len(ds)))
numeric_identifier(text) == NumericId(DigitsPrefix(text), text)

\* identifier(): a run of identifier characters and dots; an empty segment
\* is an error, and so is a numeric prerelease segment with a leading zero
Identifier(idtext, text, numeric_strict) ==
  IF idtext = << >> THEN Parsed(<< >>, text)
  ELSE IF \E i \in 1..Len(split(idtext, <<".">>)) :
            \/ split(idtext, <<".">>)[i] = << >>
            \/ /\ numeric_strict
               /\ is_numeric(split(idtext, <<".">>)[i])
               /\ Len(split(idtext, <<".">>)[i]) > 1
               /\ split(idtext, <<".">>)[i][1] = "0"
  THEN ParseErr
  ELSE Parsed(split(idtext, <<".">>), Skip(text, Len(idtext)))
prerelease_identifier(text) == Identifier(IdentPrefix(text), text, TRUE)
build_identifier(text) == Identifier(IdentPrefix(text), text, FALSE)

\* "-pre" and "+build" after the patch number: [ok, v = [pre, build], rest]
PreAndBuild(text) ==
  Try(IF starts_with(text, <<"-">>)
      THEN Try(prerelease_identifier(Tail(text)),
               LAMBDA p : IF p.v = << >> THEN ParseErr ELSE p)
      ELSE Parsed(<< >>, text),
      LAMBDA pre :
  Try(IF starts_with(pre.rest, <<"+">>)
      THEN Try(build_identifier(Tail(pre.rest)),
               LAMBDA b : IF b.v = << >> THEN ParseErr ELSE b)
      ELSE Parsed(<< >>, pre.rest),
      LAMBDA build : Parsed([pre |-> pre.v, build |-> build.v], build.rest)))

Dot(r) ==
  IF r.ok /\ starts_with(r.rest, <<".">>) THEN Parsed(r.v, Tail(r.rest)) ELSE ParseErr

\* Version::parse
Version_parse(text) ==
  Try(Dot(numeric_identifier(text)), LAMBDA major :
  Try(Dot(numeric_identifier(major.rest)), LAMBDA minor :
  Try(numeric_identifier(minor.rest), LAMBDA patch :
  Try(PreAndBuild(patch.rest), LAMBDA pb :
    IF pb.rest # << >> THEN ParseErr
    ELSE Parsed([major |-> major.v, minor |-> minor.v, patch |-> patch.v,
                 pre |-> pb.v.pre, build |-> pb.v.build], << >>)))))

\* op(): the operator at the front of a comparator; Caret when there is none
ParseOp(text) ==
  IF starts_with(text, <<"=">>) THEN Parsed("Exact", Skip(text, 1))
  ELSE IF starts_with(text, <<">", "=">>) THEN Parsed("GreaterEq", Skip(text, 2))
  ELSE IF starts_with(text, <<">">>) THEN Parsed("Greater", Skip(text, 1))
  ELSE IF starts_with(text, <<"<", "=">>) THEN Parsed("LessEq", Skip(text, 2))
  ELSE IF starts_with(text, <<"<">>) THEN Parsed("Less", Skip(text, 1))
  ELSE IF starts_with(text, <<"~">>) THEN Parsed("Tilde", Skip(text, 1))
  ELSE IF starts_with(text, <<"^">>) THEN Parsed("Caret", Skip(text, 1))
  ELSE Parsed("Caret", text)

wildcard(text) == Len(text) > 0 /\ text[1] \in {"*", "x", "X"}

\* ".minor" or ".patch" of a comparator: v is Some(n), None for a wildcard
\* ("wild") or None for an absent part ("absent")
Part(text, after_wildcard) ==
  IF ~starts_with(text, <<".">>) THEN Parsed([n |-> NoneT, kind |-> "absent"], text)
  ELSE IF wildcard(Tail(text)) THEN Parsed([n |-> NoneT, kind |-> "wild"], Skip(text, 2))
  ELSE IF after_wildcard THEN ParseErr
  ELSE Try(numeric_identifier(Tail(text)),
           LAMBDA r : Parsed([n |-> <<r.v>>, kind |-> "number"], r.rest))

\* comparator(): [op, major, minor, patch, pre] and the text after it
comparator(input) ==
  Try(ParseOp(input), LAMBDA op :
  Try(numeric_identifier(trim_start(op.rest)), LAMBDA major :
  Try(Part(major.rest, FALSE), LAMBDA minor :
  Try(Part(minor.rest, minor.v.kind = "wild"), LAMBDA patch :
  Try(IF patch.v.n # NoneT THEN PreAndBuild(patch.rest)
      ELSE Parsed([pre |-> << >>, build |-> << >>], patch.rest), LAMBDA pb :
    Parsed([op |-> IF Len(op.rest) = Len(input) /\ "wild" \in {minor.v.kind, patch.v.kind}
                   THEN "Wildcard" ELSE op.v,
            major |-> major.v, minor |-> minor.v.n, patch |-> patch.v.n,
            pre |-> pb.v.pre],
           trim_start(pb.rest)))))))

\* version_req(): comparators separated by commas
RECURSIVE version_req(_, _)
version_req(input, depth) ==
  Try(comparator(input), LAMBDA c :
    IF c.rest = << >> THEN Parsed(<<c.v>>, << >>)
    ELSE IF ~starts_with(c.rest, <<",">>) THEN ParseErr
    ELSE IF depth + 1 = 32 THEN ParseErr
    ELSE Try(version_req(trim_start(Tail(c.rest)), depth + 1),
             LAMBDA more : Parsed(<<c.v>> \o more.v, << >>)))

\* VersionReq::from_str: [ok, v = the comparators]; STAR has none
VersionReq_from_str(text) ==
  IF wildcard(trim_start(text))
  THEN IF trim_start(Tail(trim_start(text))) = << >> THEN Parsed(<< >>, << >>) ELSE ParseErr
  ELSE version_req(trim_start(text), 0)
STAR == << >>

\* the order of the characters of an identifier
AsciiOrder ==
  <<"-">> \o Digits \o <<"X", "a", "b", "c", "e", "f", "l", "o", "r", "s", "t", "x">>
Rank(c) == CHOOSE i \in 1..Len(AsciiOrder) : AsciiOrder[i] = c
Sign(a, b) == IF a < b THEN 0 - 1 ELSE IF a > b THEN 1 ELSE 0

RECURSIVE LexCmp(_, _)
LexCmp(a, b) ==
  IF a = << >> THEN (IF b = << >> THEN 0 ELSE 0 - 1)
  ELSE IF b = << >> THEN 1
  ELSE IF a[1] # b[1] THEN Sign(Rank(a[1]), Rank(b[1]))
  ELSE LexCmp(Tail(a), Tail(b))

\* one identifier against another: numbers by value and below text
SegmentCmp(a, b) ==
  IF is_numeric(a) /\ is_numeric(b) THEN Sign(DigitsValue(a, 0), DigitsValue(b, 0))
  ELSE IF is_numeric(a) THEN 0 - 1
  ELSE IF is_numeric(b) THEN 1
  ELSE LexCmp(a, b)

RECURSIVE SegmentsCmp(_, _)
SegmentsCmp(a, b) ==
  IF a = << >> THEN (IF b = << >> THEN 0 ELSE 0 - 1)
  ELSE IF b = << >> THEN 1
  ELSE IF SegmentCmp(a[1], b[1]) # 0 THEN SegmentCmp(a[1], b[1])
  ELSE SegmentsCmp(Tail(a), Tail(b))

\* Prerelease::cmp: a release is above every prerelease of it
PreCmp(a, b) ==
  IF a = << >> THEN (IF b = << >> THEN 0 ELSE 1)
  ELSE IF b = << >> THEN 0 - 1
  ELSE SegmentsCmp(a, b)

\* Version::cmp
VersionCmp(a, b) ==
  IF a.major # b.major THEN Sign(a.major, b.major)
  ELSE IF a.minor # b.minor THEN Sign(a.minor, b.minor)
  ELSE IF a.patch # b.patch THEN Sign(a.patch, b.patch)
  ELSE IF PreCmp(a.pre, b.pre) # 0 THEN PreCmp(a.pre, b.pre)
  ELSE SegmentsCmp(a.build, b.build)

matches_exact(cmp, ver) ==
  /\ ver.major = cmp.major
  /\ cmp.minor # NoneT => ver.minor = cmp.minor[1]
  /\ cmp.patch # NoneT => ver.patch = cmp.patch[1]
  /\ ver.pre = cmp.pre

matches_greater(cmp, ver) ==
  IF ver.major # cmp.major THEN ver.major > cmp.major
  ELSE IF cmp.minor = NoneT THEN FALSE
  ELSE IF ver.minor # cmp.minor[1] THEN ver.minor > cmp.minor[1]
  ELSE IF cmp.patch = NoneT THEN FALSE
  ELSE IF ver.patch # cmp.patch[1] THEN ver.patch > cmp.patch[1]
  ELSE PreCmp(ver.pre, cmp.pre) > 0

matches_less(cmp, ver) ==
  IF ver.major # cmp.major THEN ver.major < cmp.major
  ELSE IF cmp.minor = NoneT THEN FALSE
  ELSE IF ver.minor # cmp.minor[1] THEN ver.minor < cmp.minor[1]
  ELSE IF cmp.patch = NoneT THEN FALSE
  ELSE IF ver.patch # cmp.patch[1] THEN ver.patch < cmp.patch[1]
  ELSE PreCmp(ver.pre, cmp.pre) < 0

matches_tilde(cmp, ver) ==
  IF ver.major # cmp.major THEN FALSE
  ELSE IF cmp.minor # NoneT /\ ver.minor # cmp.minor[1] THEN FALSE
  ELSE IF cmp.patch # NoneT /\ ver.patch # cmp.patch[1] THEN ver.patch > cmp.patch[1]
  ELSE PreCmp(ver.pre, cmp.pre) >= 0

matches_caret(cmp, ver) ==
  IF ver.major # cmp.major THEN FALSE
  ELSE IF cmp.minor = NoneT THEN TRUE
  ELSE IF cmp.patch = NoneT
  THEN (IF cmp.major > 0 THEN ver.minor >= cmp.minor[1] ELSE ver.minor = cmp.minor[1])
  ELSE IF cmp.major > 0
  THEN (IF ver.minor # cmp.minor[1] THEN ver.minor > cmp.minor[1]
        ELSE IF ver.patch # cmp.patch[1] THEN ver.patch > cmp.patch[1]
        ELSE PreCmp(ver.pre, cmp.pre) >= 0)
  ELSE IF cmp.minor[1] > 0
  THEN (IF ver.minor # cmp.minor[1] THEN FALSE
        ELSE IF ver.patch # cmp.patch[1] THEN ver.patch > cmp.patch[1]
        ELSE PreCmp(ver.pre, cmp.pre) >= 0)
  ELSE IF ver.minor # cmp.minor[1] \/ ver.patch # cmp.patch[1] THEN FALSE
  ELSE PreCmp(ver.pre, cmp.pre) >= 0

matches_impl(cmp, ver) ==
  CASE cmp.op \in {"Exact", "Wildcard"} -> matches_exact(cmp, ver)
    [] cmp.op = "Greater" -> matches_greater(cmp, ver)
    [] cmp.op = "GreaterEq" -> matches_exact(cmp, ver) \/ matches_greater(cmp, ver)
    [] cmp.op = "Less" -> matches_less(cmp, ver)
    [] cmp.op = "LessEq" -> matches_exact(cmp, ver) \/ matches_less(cmp, ver)
    [] cmp.op = "Tilde" -> matches_tilde(cmp, ver)
    [] cmp.op = "Caret" -> matches_caret(cmp, ver)

pre_is_compatible(cmp, ver) ==
  /\ cmp.major = ver.major
  /\ cmp.minor = <<ver.minor>>
  /\ cmp.patch = <<ver.patch>>
  /\ cmp.pre # << >>

\* VersionReq::matches: every comparator matches, and a prerelease needs a
\* comparator that names a prerelease of the same major.minor.patch
matches(req, ver) ==
  /\ \A i \in 1..Len(req) : matches_impl(req[i], ver)
  /\ ver.pre # << >> => \E i \in 1..Len(req) : pre_is_compatible(req[i], ver)

(***************************************************************************)
(* canonicalize_npm_range and Resolver::pick_version.                      *)
(***************************************************************************)
StarText == <<"*">>
LatestText == <<"l", "a", "t", "e", "s", "t">>
OrText == <<"|", "|">>
CommaSpace == <<",", " ">>

\* "major.minor" as a token of a comparator list
MajorMinor(t) ==
  IF /\ count_dots(t) = 1
     /\ \A i \in 1..Len(t) : is_ascii_digit(t[i]) \/ t[i] = "."
     /\ parse_u64(split(t, <<".">>)[2]) # NoneT
  THEN <<(<<">", "=">> \o split(t, <<".">>)[1] \o <<".">> \o split(t, <<".">>)[2]
            \o <<".", "0", ",", " ", "<">> \o split(t, <<".">>)[1] \o <<".">>
            \o to_string(parse_u64(split(t, <<".">>)[2])[1] + 1) \o <<".", "0">>)>>
  ELSE NoneT

\* the while loop over the tokens (lines 123-162): the returned string
RECURSIVE Comparators(_, _, _, _)
Comparators(tokens, i, comps, s) ==
  IF i > Len(tokens) THEN join(comps, CommaSpace)
  ELSE IF is_op(tokens[i])
  THEN (IF i + 1 <= Len(tokens)
        THEN Comparators(tokens, i + 2, Append(comps, tokens[i] \o tokens[i + 1]), s)
        ELSE s)
  ELSE IF is_version_like(tokens[i])
  THEN (IF \E j \in 1..Len(tokens[i]) : tokens[i][j] \in {"x", "X", "*"}
        THEN expand_wildcard(tokens[i])
        ELSE IF is_numeric(tokens[i]) THEN <<"^">> \o tokens[i] \o <<".", "0", ".", "0">>
        ELSE IF MajorMinor(tokens[i]) # NoneT THEN MajorMinor(tokens[i])[1]
        ELSE Comparators(tokens, i + 1, Append(comps, <<"=">> \o tokens[i]), s))
  ELSE s

\* the hyphen range of lines 106-115: Some(text) or None
HyphenRange(s) ==
  IF /\ contains(s, <<" ", "-", " ">>)
     /\ is_version_like(trim(SubSeq(s, 1, find(s, <<" ", "-", " ">>) - 1)))
     /\ is_version_like(trim(Skip(s, find(s, <<" ", "-", " ">>) + 2)))
  THEN <<(<<">", "=">> \o trim(SubSeq(s, 1, find(s, <<" ", "-", " ">>) - 1))
            \o <<",", " ", "<", "=">> \o trim(Skip(s, find(s, <<" ", "-", " ">>) + 2)))>>
  ELSE NoneT

Canonical(s) ==
  IF s = << >> \/ s = StarText \/ s = LatestText THEN StarText
  ELSE IF contains(s, OrText) THEN s
  ELSE IF Version_parse(s).ok THEN <<"=">> \o s
  ELSE IF HyphenRange(s) # NoneT THEN HyphenRange(s)[1]
  ELSE IF Len(split_whitespace(s)) > 1 THEN Comparators(split_whitespace(s), 1, << >>, s)
  ELSE IF is_numeric(s) THEN <<"^">> \o s \o <<".", "0", ".", "0">>
  ELSE IF ends_with(s, <<".", "x">>) \/ ends_with(s, <<".", "*">>) THEN expand_wildcard(s)
  ELSE s

canonicalize_npm_range(input) == Canonical(trim(input))

\* candidates.sort_by(|a, b| b.0.cmp(a.0)): the versions from the highest down
RECURSIVE Descending(_)
Descending(vs) ==
  IF vs = {} THEN << >>
  ELSE LET top == CHOOSE v \in vs : \A w \in vs : VersionCmp(v, w) >= 0
       IN <<top>> \o Descending(vs \ {top})

Picked(ver, tarball) == [ok |-> TRUE, version |-> ver, tarball |-> tarball, err |-> None]
PickErr(err) == [ok |-> FALSE, version |-> NoneT, tarball |-> NoneT, err |-> err]

\* the loop of lines 69-74 over the sorted candidates
RECURSIVE FirstMatch(_, _, _, _)
FirstMatch(versions, candidates, i, reqs) ==
  IF i > Len(candidates) THEN PickErr("no version matches range")
  ELSE IF \E k \in 1..Len(reqs) : matches(reqs[k], candidates[i])
  THEN Picked(candidates[i], versions[candidates[i]])
  ELSE FirstMatch(versions, candidates, i + 1, reqs)

\* the loop of lines 35-52 over the alternatives: [ok, v = the requirements]
RECURSIVE SubRanges(_, _, _)
SubRanges(parts, i, v) ==
  IF i > Len(parts) THEN Parsed(v, << >>)
  ELSE IF canonicalize_npm_range(parts[i]) = StarText
  THEN SubRanges(parts, i + 1, Append(v, STAR))
  ELSE Try(VersionReq_from_str(canonicalize_npm_range(parts[i])),
           LAMBDA r : SubRanges(parts, i + 1, Append(v, r.v)))

\* .map(|p| p.trim()).filter(|p| !p.is_empty())
TrimmedParts(parts) ==
  SelectSeq([i \in 1..Len(parts) |-> trim(parts[i])], LAMBDA q : q # << >>)

\* versions is the map from each candidate version to its tarball
pick_version(versions, range) ==
  IF contains(range, OrText) \/ contains(canonicalize_npm_range(range), OrText)
  THEN IF ~SubRanges(TrimmedParts(split(range, OrText)), 1, << >>).ok
       THEN PickErr("invalid semver sub-range")
       ELSE IF SubRanges(TrimmedParts(split(range, OrText)), 1, << >>).v = << >>
       THEN PickErr("empty OR range")
       ELSE FirstMatch(versions, Descending(DOMAIN versions), 1,
                       SubRanges(TrimmedParts(split(range, OrText)), 1, << >>).v)
  ELSE IF canonicalize_npm_range(range) = StarText
  THEN FirstMatch(versions, Descending(DOMAIN versions), 1, <<STAR>>)
  ELSE IF ~VersionReq_from_str(canonicalize_npm_range(range)).ok
  THEN PickErr("invalid semver range")
  ELSE FirstMatch(versions, Descending(DOMAIN versions), 1,
                  <<VersionReq_from_str(canonicalize_npm_range(range)).v>>)

(***************************************************************************)
(* SpecResolver: canonicalize_npm_range and pick_version applied to drawn  *)
(* ranges and candidate versions.  A range is drawn as its alternatives,   *)
(* each a list of comparators [op, major, minor, patch, pre], and written  *)
(* out as text with every operator attached to its version or followed by  *)
(* a space; the functions get the text.                                    *)
(*   pv = [versions, alts, range, canon, picked]                           *)
(***************************************************************************)
OpText(op) ==
  CASE op = "Exact" -> <<"=">>
    [] op = "Greater" -> <<">">>
    [] op = "GreaterEq" -> <<">", "=">>
    [] op = "Less" -> <<"<">>
    [] op = "LessEq" -> <<"<", "=">>
    [] op = "Tilde" -> <<"~">>
    [] op = "Caret" -> <<"^">>

VersionText(c) ==
  to_string(c.major)
    \o (IF c.minor = NoneT THEN << >> ELSE <<".">> \o to_string(c.minor[1]))
    \o (IF c.patch = NoneT THEN << >> ELSE <<".">> \o to_string(c.patch[1]))
    \o (IF c.pre = << >> THEN << >> ELSE <<"-">> \o join(c.pre, <<".">>))

Attached(c) == OpText(c.op) \o VersionText(c)
Detached(c) == OpText(c.op) \o <<" ">> \o VersionText(c)

\* a comparator list as text, its comparators separated by one space
ListText(list, style) ==
  join([i \in 1..Len(list) |->
          IF style = "attached" THEN Attached(list[i]) ELSE Detached(list[i])],
       <<" ">>)

Cmp(op, major, minor, patch, pre) ==
  [op |-> op, major |-> major, minor |-> minor, patch |-> patch, pre |-> pre]

ComparatorLists ==
  { <<Cmp("Caret", 1, NoneT, NoneT, << >>)>>,
    <<Cmp("Caret", 2, NoneT, NoneT, << >>)>>,
    <<Cmp("Caret", 4, <<0>>, <<0>>, << >>)>>,
    <<Cmp("GreaterEq", 3, <<0>>, <<0>>, << <<"r", "c">>, <<"0">> >>)>>,
    <<Cmp("Caret", 3, <<1>>, <<0>>, << >>), Cmp("Less", 4, NoneT, NoneT, << >>)>>,
    <<Cmp("GreaterEq", 2, <<1>>, <<2>>, << >>), Cmp("Less", 3, <<0>>, <<0>>, << >>)>>,
    <<Cmp("Caret", 1, <<0>>, <<0>>, << >>), Cmp("Less", 1, <<5>>, <<0>>, << >>)>>,
    <<Cmp("Tilde", 1, <<2>>, NoneT, << >>), Cmp("LessEq", 1, <<2>>, <<0>>, << >>),
      Cmp("Greater", 0, <<9>>, NoneT, << >>)>> }

Styles == {"attached", "detached"}

\* an alternative: its text and the comparators it stands for
ListAlternatives ==
  {[kind |-> "list", text |-> ListText(l, st), ref |-> l] :
     l \in ComparatorLists, st \in Styles}

\* the other forms of the canonicalizer, with the comparators they stand for
FormAlternatives ==
  { [kind |-> "form", text |-> StarText, ref |-> STAR],
    [kind |-> "form", text |-> <<" ", "l", "a", "t", "e", "s", "t">>, ref |-> STAR],
    [kind |-> "form", text |-> <<"2">>,
     ref |-> <<Cmp("Caret", 2, <<0>>, <<0>>, << >>)>>],
    [kind |-> "form", text |-> <<"1", ".", "x">>,
     ref |-> <<Cmp("GreaterEq", 1, <<0>>, <<0>>, << >>), Cmp("Less", 2, <<0>>, <<0>>, << >>)>>],
    [kind |-> "form", text |-> <<"3", ".", "1", ".", "x">>,
     ref |-> <<Cmp("GreaterEq", 3, <<1>>, <<0>>, << >>), Cmp("Less", 3, <<2>>, <<0>>, << >>)>>],
    [kind |-> "form", text |-> <<"2", ".", "1", ".", "3">>,
     ref |-> <<Cmp("Exact", 2, <<1>>, <<3>>, << >>)>>],
    [kind |-> "form", text |-> <<"1", ".", "0", ".", "0", " ", "-", " ", "2", ".", "1", ".", "3">>,
     ref |-> <<Cmp("GreaterEq", 1, <<0>>, <<0>>, << >>), Cmp("LessEq", 2, <<1>>, <<3>>, << >>)>>] }

Alternatives == ListAlternatives \cup FormAlternatives

\* the alternatives that follow another one after "||"
SecondAlternatives ==
  {a \in Alternatives :
     a.ref \in { <<Cmp("Caret", 2, NoneT, NoneT, << >>)>>,
                <<Cmp("Caret", 4, <<0>>, <<0>>, << >>)>>,
                <<Cmp("Caret", 1, <<0>>, <<0>>, << >>), Cmp("Less", 1, <<5>>, <<0>>, << >>)>> }}

Ranges ==
  {<<a>> : a \in Alternatives} \cup {<<a, b>> : a \in Alternatives, b \in SecondAlternatives}

RangeText(alts) == join([i \in 1..Len(alts) |-> alts[i].text], <<" ">> \o OrText \o <<" ">>)

V(major, minor, patch, pre) ==
  [major |-> major, minor |-> minor, patch |-> patch, pre |-> pre, build |-> << >>]
Rc1 == << <<"r", "c">>, <<"1">> >>

\* the published versions of a package, as the registry metadata names them
CandidateSets ==
  { {},
    {V(1, 0, 0, << >>), V(2, 1, 3, << >>), V(3, 0, 0, Rc1)},
    {V(1, 0, 0, << >>), V(1, 2, 0, << >>), V(1, 5, 0, << >>)},
    {V(3, 0, 0, Rc1)},
    {V(3, 1, 0, << >>), V(3, 5, 0, << >>), V(4, 0, 0, << >>)},
    {V(2, 1, 2, << >>), V(2, 9, 9, << >>), V(3, 0, 0, << >>)} }

VersionString(v) ==
  to_string(v.major) \o <<".">> \o to_string(v.minor) \o <<".">> \o to_string(v.patch)
    \o (IF v.pre = << >> THEN << >> ELSE <<"-">> \o join(v.pre, <<".">>))

\* map_versions: the versions that parse, each with its tarball URL
map_versions(texts) ==
  [v \in {Version_parse(t).v : t \in {x \in texts : Version_parse(x).ok}} |->
     <<"tarball">> \o VersionString(v)]

ResolverStart(cands, alts) ==
  [versions |-> map_versions({VersionString(v) : v \in cands}), alts |-> alts,
   range |-> RangeText(alts), canon |-> NoneT, picked |-> NoneT]

\* canonicalize_npm_range, and VersionReq::parse of what it returned
ResolverCanonicalize ==
  /\ pv.canon = NoneT
  /\ pv' = [pv EXCEPT !.canon =
              <<[text |-> canonicalize_npm_range(pv.range),
                 req |-> VersionReq_from_str(canonicalize_npm_range(pv.range))]>>]
  /\ UNCHANGED <<ivars, sv, cv>>

ResolverPick ==
  /\ pv.picked = NoneT
  /\ pv' = [pv EXCEPT !.picked = <<pick_version(pv.versions, pv.range)>>]
  /\ UNCHANGED <<ivars, sv, cv>>

ResolverNext == ResolverCanonicalize \/ ResolverPick

ResolverInit ==
  /\ InstallParked /\ StoreParked /\ CacheParked
  /\ \E cands \in CandidateSets, alts \in Ranges : pv = ResolverStart(cands, alts)

SpecResolver == ResolverInit /\ [][ResolverNext]_vars

\* a whitespace-separated list of two or more comparators, in either style
IsComparatorList(alts) ==
  Len(alts) = 1 /\ alts[1].kind = "list" /\ Len(alts[1].ref) >= 2
AttachedList(a) == a.kind = "list" /\ Len(a.ref) >= 2 /\ a.text = ListText(a.ref, "attached")

CommaJoined(list) == join([i \in 1..Len(list) |-> Attached(list[i])], CommaSpace)

\* C24: for every whitespace-separated list of two or more comparators,
\* with the operators attached to their versions or standing alone before
\* them, canonicalize returns the comparators joined by commas, each
\* operator paired with the version that follows it, and the semver request
\* parser accepts the returned string.
C24_ListsCommaJoined ==
  (pv.canon # NoneT /\ IsComparatorList(pv.alts)) =>
    /\ pv.canon[1].text = CommaJoined(pv.alts[1].ref)
    /\ pv.canon[1].req.ok
    /\ pv.canon[1].req.v = pv.alts[1].ref

\* the same statement for the lists whose operators stand alone
C24_DetachedCommaJoined ==
  (pv.canon # NoneT /\ IsComparatorList(pv.alts) /\ ~AttachedList(pv.alts[1])) =>
    /\ pv.canon[1].text = CommaJoined(pv.alts[1].ref)
    /\ pv.canon[1].req.ok
    /\ pv.canon[1].req.v = pv.alts[1].ref

\* ">= 2.1.2 < 3.0.0" canonicalized
C24_DetachedReached ==
  /\ pv.canon # NoneT
  /\ pv.range = <<">", "=", " ", "2", ".", "1", ".", "2", " ", "<", " ", "3", ".", "0", ".", "0">>
  /\ pv.canon[1].text = <<">", "=", "2", ".", "1", ".", "2", ",", " ", "<", "3", ".", "0", ".", "0">>

\* the other forms of a range canonicalize to the comparators they stand for
CanonicalForms ==
  (pv.canon # NoneT /\ Len(pv.alts) = 1 /\ pv.alts[1].kind = "form") =>
    IF pv.alts[1].ref = STAR THEN pv.canon[1].text = StarText
    ELSE pv.canon[1].req.ok /\ pv.canon[1].req.v = pv.alts[1].ref

\* the candidates that satisfy at least one alternative of the range
Satisfying(versions, alts) ==
  {v \in DOMAIN versions : \E i \in 1..Len(alts) : matches(alts[i].ref, v)}

PicksHighest(versions, alts, picked) ==
  IF Satisfying(versions, alts) = {}
  THEN ~picked.ok /\ picked.err = "no version matches range"
  ELSE /\ picked.ok
       /\ picked.version \in Satisfying(versions, alts)
       /\ \A w \in Satisfying(versions, alts) : VersionCmp(picked.version, w) >= 0
       /\ picked.tarball = versions[picked.version]

\* C21: pick_version returns the highest candidate, in semver order, that
\* satisfies the range, a range with || being satisfied by a version that
\* satisfies at least one of its alternatives; when no candidate satisfies
\* the range it fails with the no-version-matches error.
C21_PickHighest ==
  pv.picked # NoneT => PicksHighest(pv.versions, pv.alts, pv.picked[1])

\* the same statement for the ranges none of whose alternatives is a list
\* of two or more comparators with attached operators
C21_PickHighestOfParsed ==
  (pv.picked # NoneT /\ \A i \in 1..Len(pv.alts) : ~AttachedList(pv.alts[i])) =>
    PicksHighest(pv.versions, pv.alts, pv.picked[1])

\* candidates {1.0.0, 2.1.3, 3.0.0-rc.1} and range "^1 || ^2": 2.1.3
C21_Example ==
  /\ pv.picked # NoneT
  /\ DOMAIN pv.versions = {V(1, 0, 0, << >>), V(2, 1, 3, << >>), V(3, 0, 0, Rc1)}
  /\ pv.range = <<"^", "1", " ", "|", "|", " ", "^", "2">>
  /\ pv.picked[1].ok
  /\ pv.picked[1].version = V(2, 1, 3, << >>)

(***************************************************************************)
(* The join of the downloads and the start of the store plan (Spec).       *)
(***************************************************************************)
AllDownloaded == \A n \in DOMAIN run.dl : run.dl[n] = "ok"
SomeDownloadFailed == \E n \in DOMAIN run.dl : run.dl[n] = "err"
BeforePlan == pc \in {"traverse", "download"}

\* the entries of the downloaded packages carry what the downloads returned
IntegrityBackfilled(lk, pending, results) ==
  \A i \in 1..Len(pending) :
    Has(lk, Key(pending[i].name)) =>
      lk[Key(pending[i].name)].integrity = results[pending[i].name]

\* C26: in a full install no store entry is ensured and no package is
\* materialized until every pending download has finished; a failed
\* download aborts the install before the store plan is built; and when the
\* store plan is built the lockfile entry of every downloaded package
\* carries the integrity string its download returned.
C26_PlanAfterDownloads ==
  [][BeforePlan =>
       /\ (store' # store \/ pc' = "materialize") => (pc = "download" /\ AllDownloaded)
       /\ nm'.dirs \subseteq nm.dirs
       /\ (pc = "download" /\ SomeDownloadFailed /\ pc' # "download") =>
            /\ store' = store
            /\ pc' = "idle"
            /\ last'.status = "err" /\ last'.err = "integrity"
       /\ pc' = "materialize" => IntegrityBackfilled(run'.lock, run.pending, run.got)]_vars

\* the plan is built after two downloads, one of a package whose registry
\* metadata carries no integrity
C26_Witness ==
  /\ pc = "materialize"
  /\ Len(run.pending) >= 2
  /\ "a" \in DOMAIN run.got
  /\ RegistryIntegrity(world, "a") = NoneT
  /\ run.lock[Key("a")].integrity = Digest("a")
  /\ DOMAIN run.plan # {}

\* a failed download ended the install while another one had not finished
C26_Aborted ==
  /\ pc = "idle"
  /\ last.kind = "install" /\ last.err = "integrity"
  /\ store = << >>

(***************************************************************************)
(* The traversal queue (Spec): order of resolution and the optional-root   *)
(* flag of the tasks a resolved package appends.                           *)
(***************************************************************************)
TraverseStep == pc = "traverse" /\ pc' \in {"traverse", "download"}
Dequeued == Head(run.queue)
\* the tasks the step appended behind the ones that were waiting
Appended == SubSeq(run'.queue, Len(run.queue), Len(run'.queue))
\* the step resolved the package of the task it took
Resolved == Dequeued.name \notin run.instances /\ Dequeued.name \in run'.instances

\* what the manifest of a resolved package declares
DeclaredDeps(w, n) == IF n \in WorkspaceNames(w) THEN WsManifest.dependencies ELSE PkgDeps(n)
DeclaredDev(w, n) == IF n \in WorkspaceNames(w) THEN WsManifest.dev_dependencies ELSE {}
DeclaredOpt(w, n) ==
  IF n \in WorkspaceNames(w) THEN WsManifest.optional_dependencies ELSE PkgOpt(n)
DeclaredPeer(w, n) == IF n \in WorkspaceNames(w) THEN WsPeer(w) ELSE PkgPeer(w, n)
DeclaredPeerOpt(w, n) == IF n \in WorkspaceNames(w) THEN WsPeerOpt(w) ELSE PkgPeerOpt(n)

\* a task is taken from the front, tasks are added at the back
FirstInFirstOut ==
  /\ SubSeq(run'.queue, 1, Len(run.queue) - 1) = Tail(run.queue)
  /\ run'.order \in {run.order, Append(run.order, Dequeued.name)}

NamesOf(q) == [i \in 1..Len(q) |-> q[i].name]

\* a is b with some of its elements left out
RECURSIVE IsSubSeq(_, _)
IsSubSeq(a, b) ==
  IF Len(a) = 0 THEN TRUE
  ELSE IF Len(b) = 0 THEN FALSE
  ELSE IF Head(a) = Head(b) THEN IsSubSeq(Tail(a), Tail(b))
  ELSE IsSubSeq(a, Tail(b))

IsSuffix(a, b) == Len(a) <= Len(b) /\ SubSeq(b, Len(b) - Len(a) + 1, Len(b)) = a

\* the names of four sections, each in the order of its map
SectionOrder(deps, dev, opt, peers) ==
  SortedNames(deps) \o SortedNames(dev) \o SortedNames(opt) \o SortedNames(peers)

\* a command without specs starts a traversal
SeedStep == pc = "idle" /\ pc' = "traverse" /\ Len(run'.specs) = 0
SeededInOrder ==
  IsSuffix(SectionOrder(manifest'.dependencies, manifest'.dev_dependencies,
                        manifest'.optional_dependencies, {}),
           NamesOf(run'.queue))

ChildrenInOrder ==
  IsSubSeq(NamesOf(Appended),
           SectionOrder(DeclaredDeps(world, Dequeued.name), DeclaredDev(world, Dequeued.name),
                        DeclaredOpt(world, Dequeued.name), DeclaredPeer(world, Dequeued.name)))

\* two full installs of the same manifests with the same command line
\* resolve the same names in the same order
OrderFromManifests ==
  (/\ prevFull.valid
   /\ lastFull.valid
   /\ prevFull.specs = lastFull.specs
   /\ prevFull.manifest = lastFull.manifest)
    => prevFull.order = lastFull.order

FlagAsDeclared(w, parent, task) ==
  \/ task.name \in DeclaredDeps(w, parent.name) /\ task.optional_root = parent.optional_root
  \/ task.name \in DeclaredDev(w, parent.name) /\ ~task.optional_root
  \/ task.name \in DeclaredOpt(w, parent.name) /\ task.optional_root
  \/ /\ task.name \in DeclaredPeer(w, parent.name) \ DeclaredPeerOpt(w, parent.name)
     /\ ~task.optional_root

\* C30: of the tasks a resolved package appends, a dependency carries the
\* optional-root flag of the package, an optionalDependency carries true, a
\* peer that the peer meta does not mark optional carries false, and there
\* is no task for a peer marked optional; for every kind of package.
C30_ChildFlags ==
  [][(TraverseStep /\ Resolved) =>
       \A i \in 1..Len(Appended) : FlagAsDeclared(world, Dequeued, Appended[i])]_vars

\* the same statement for the packages that come from the registry
C30_RegistryChildFlags ==
  [][(TraverseStep /\ Resolved /\ Dequeued.name \in RegistryNames) =>
       \A i \in 1..Len(Appended) : FlagAsDeclared(world, Dequeued, Appended[i])]_vars

\* an optional package was resolved and its peer, not marked optional, is
\* waiting with the flag false
C30_PeerOfOptionalQueued ==
  /\ pc = "traverse"
  /\ "o" \in run.instances
  /\ \E i \in 1..Len(run.queue) : run.queue[i].name = "c" /\ ~run.queue[i].optional_root

(***************************************************************************)
(* SpecTraversal: the traversal loop of cmd_install over packages that     *)
(* have more than one published version.  The project is new (no lockfile, *)
(* no workspaces); the seeds, the cache, the downloads that fail and the   *)
(* versions the platform does not support are drawn.                       *)
(*   pv = [fail, unsup, cache, queue, visited, instances, lock, pending,   *)
(*         log, status, plan]                                              *)
(* log has one entry per task taken from the queue: its name, the version  *)
(* picked for it (if one was picked) and what became of it.                *)
(***************************************************************************)
TravNames == {"x", "y"}
V1 == V(1, 0, 0, << >>)
V2 == V(2, 0, 0, << >>)
Published == {V1, V2}
Caret1 == <<"^", "1">>
Caret2 == <<"^", "2">>
Caret9 == <<"^", "9">>
TravRanges == {Caret1, Caret2, Caret9}
TravTasks == [name : TravNames, range : TravRanges, optional_root : BOOLEAN]
\* one to three root tasks (a name can be in two sections of the manifest)
TravSeeds ==
  {<<t>> : t \in TravTasks} \cup {<<t, u>> : t \in TravTasks, u \in TravTasks}
    \cup {<<t, u, u>> : t \in TravTasks, u \in TravTasks}

\* the manifests of the published versions: y@1 depends on x ^1 and x@1 on
\* y ^1; y@2 has the optionalDependency x ^2 and x@2 the peer y ^2
TravDeps(name, ver) ==
  IF name = "y" /\ ver = V1 THEN <<[name |-> "x", range |-> Caret1]>>
  ELSE IF name = "x" /\ ver = V1 THEN <<[name |-> "y", range |-> Caret1]>>
  ELSE << >>
TravOpt(name, ver) == IF name = "y" /\ ver = V2 THEN <<[name |-> "x", range |-> Caret2]>> ELSE << >>
TravPeer(name, ver) == IF name = "x" /\ ver = V2 THEN <<[name |-> "y", range |-> Caret2]>> ELSE << >>

VersionsOf(pairs, name) == {p[2] : p \in {q \in pairs : q[1] = name}}

\* .find(|candidate| req.matches(candidate)) over cached_versions(name)
RECURSIVE FindCached(_, _, _)
FindCached(candidates, i, req) ==
  IF i > Len(candidates) THEN PickErr("not cached")
  ELSE IF matches(req, candidates[i]) THEN Picked(candidates[i], << >>)
  ELSE FindCached(candidates, i + 1, req)

\* picked_result for a range that holds neither "||" nor "latest": a cached
\* version that matches, else the pick among the published versions
PickWith(cached, name, range, canon, parsed) ==
  IF ~parsed.ok /\ canon # StarText /\ ~contains(range, <<" ">>) /\ ~contains(range, <<",">>)
  THEN PickErr("unknown dist-tag")
  ELSE LET found == FindCached(Descending(VersionsOf(cached, name)), 1,
                               IF canon = StarText \/ ~parsed.ok THEN STAR ELSE parsed.v)
       IN IF found.ok THEN found
          ELSE pick_version(map_versions({VersionString(v) : v \in Published}), range)

picked_result(cached, name, range) ==
  PickWith(cached, name, range, canonicalize_npm_range(range),
           VersionReq_from_str(canonicalize_npm_range(range)))

Logged(st, t, ver, outcome) ==
  [st EXCEPT !.queue = Tail(st.queue),
             !.log = Append(@, [name |-> t.name, version |-> ver, outcome |-> outcome])]

\* write_lock_entry, instances.insert, visited_name_version.insert and the
\* three loops that enqueue the children
Record(st, t, ver) ==
  [Logged(st, t, <<ver>>, "recorded") EXCEPT
     !.lock = {p \in @ : p[1] # t.name} \cup {<<t.name, ver>>},
     !.instances = {p \in @ : p[1] # t.name} \cup {<<t.name, ver>>},
     !.visited = @ \cup {<<t.name, ver>>},
     !.queue = Tail(st.queue)
                 \o [i \in 1..Len(TravDeps(t.name, ver)) |->
                       [name |-> TravDeps(t.name, ver)[i].name,
                        range |-> TravDeps(t.name, ver)[i].range,
                        optional_root |-> t.optional_root]]
                 \o [i \in 1..Len(TravOpt(t.name, ver)) |->
                       [name |-> TravOpt(t.name, ver)[i].name,
                        range |-> TravOpt(t.name, ver)[i].range,
                        optional_root |-> TRUE]]
                 \o [i \in 1..Len(TravPeer(t.name, ver)) |->
                       [name |-> TravPeer(t.name, ver)[i].name,
                        range |-> TravPeer(t.name, ver)[i].range,
                        optional_root |-> FALSE]]]

\* the body of the loop from the picked version on
Resolve(st, t, picked) ==
  IF ~picked.ok
  THEN IF t.optional_root THEN Logged(st, t, NoneT, "unresolved")
       ELSE [Logged(st, t, NoneT, "error") EXCEPT !.status = "err"]
  ELSE IF <<t.name, picked.version>> \in st.visited
  THEN Logged(st, t, <<picked.version>>, "visited")
  ELSE IF <<t.name, picked.version>> \in st.unsup /\ t.optional_root
  THEN [Logged(st, t, <<picked.version>>, "platform") EXCEPT
          !.lock = {p \in @ : p[1] # t.name} \cup {<<t.name, picked.version>>},
          !.visited = @ \cup {<<t.name, picked.version>>}]
  ELSE IF <<t.name, picked.version>> \in st.cache
  THEN Record(st, t, picked.version)
  ELSE IF t.optional_root
  THEN IF <<t.name, picked.version>> \in st.fail
       THEN Logged(st, t, <<picked.version>>, "download failed")
       ELSE [Record(st, t, picked.version) EXCEPT
               !.cache = @ \cup {<<t.name, picked.version>>}]
  ELSE [Record(st, t, picked.version) EXCEPT
          !.pending = Append(@, <<t.name, picked.version>>)]

\* the visited test of line 444 left out: only the (name, version) test of
\* line 914 remains
TraverseOne_by_version(st) ==
  Resolve(st, Head(st.queue),
          picked_result(st.cache, Head(st.queue).name, Head(st.queue).range))

\* one iteration of the loop
TraverseOne(st) ==
  IF \E p \in st.visited : p[1] = Head(st.queue).name
  THEN Logged(st, Head(st.queue), NoneT, "visited")
  ELSE Resolve(st, Head(st.queue),
               picked_result(st.cache, Head(st.queue).name, Head(st.queue).range))

TraversalStart(seeds, cached, fail, unsup) ==
  [fail |-> fail, unsup |-> unsup, cache |-> cached, queue |-> seeds, visited |-> {},
   instances |-> {}, lock |-> {}, pending |-> << >>, log |-> << >>, status |-> "run",
   plan |-> {}]

TraverseTask ==
  /\ pv.status = "run"
  /\ Len(pv.queue) > 0
  /\ pv' = TraverseOne(pv)
  /\ UNCHANGED <<ivars, sv, cv>>

\* the parallel downloads of the pending packages, then the plan from the
\* instances
TraversalFinish ==
  /\ pv.status = "run"
  /\ Len(pv.queue) = 0
  /\ pv' = IF \E i \in 1..Len(pv.pending) : pv.pending[i] \in pv.fail
           THEN [pv EXCEPT !.status = "err"]
           ELSE [pv EXCEPT !.status = "ok", !.plan = pv.instances,
                           !.cache = @ \cup {pv.pending[i] : i \in 1..Len(pv.pending)}]
  /\ UNCHANGED <<ivars, sv, cv>>

TraversalNext == TraverseTask \/ TraversalFinish

TraversalInit ==
  /\ InstallParked /\ StoreParked /\ CacheParked
  /\ \E seeds \in TravSeeds,
        cached \in {{}, {<<"x", V1>>}},
        fail \in {{}, {<<"x", V1>>}, {<<"x", V2>>}},
        unsup \in {{}, {<<"x", V2>>}} :
       pv = TraversalStart(seeds, cached, fail, unsup)

SpecTraversal == TraversalInit /\ [][TraversalNext]_vars

OneVersionPerName(pairs) == \A p \in pairs, q \in pairs : p[1] = q[1] => p = q

\* the entries of the log for a name, in the order the tasks were taken
LogOf(name) == SelectSeq(pv.log, LAMBDA e : e.name = name)
\* the entries other than those of optional tasks given up on
Kept(entries) == SelectSeq(entries, LAMBDA e : e.outcome \notin {"unresolved", "download failed"})

NameUnique ==
  /\ OneVersionPerName(pv.visited)
  /\ OneVersionPerName(pv.instances)
  /\ OneVersionPerName(pv.lock)
  /\ OneVersionPerName(pv.plan)
  /\ pv.instances \subseteq pv.visited
  /\ pv.plan \subseteq pv.visited

\* a task whose name has a version is skipped and nothing is picked for it
SkippedUnresolved ==
  (/\ pv.status = "run"
   /\ Len(pv.queue) > 0
   /\ \E p \in pv.visited : p[1] = Head(pv.queue).name)
    => /\ pv'.visited = pv.visited
       /\ pv'.instances = pv.instances
       /\ pv'.lock = pv.lock
       /\ pv'.queue = Tail(pv.queue)
       /\ pv'.log[Len(pv'.log)].version = NoneT

\* C29: each name has at most one resolved version, during the traversal
\* and in the plan and the lockfile; a task whose name already has one is
\* skipped without resolving its range; so the version kept for a name is
\* the one chosen for the first task dequeued for that name.
C29_FirstTaskDecides ==
  /\ [](/\ NameUnique
        /\ \A p \in pv.visited : LogOf(p[1])[1].version = <<p[2]>>)
  /\ [][SkippedUnresolved]_vars

\* C29, amended: ... the version kept for a name is the one chosen for the
\* first task dequeued for that name that was not an optional task given
\* up on because its range matched no version or its download failed.
C29_FirstKeptTaskDecides ==
  /\ [](/\ NameUnique
        /\ \A p \in pv.visited :
             /\ Kept(LogOf(p[1]))[1].version = <<p[2]>>
             /\ Kept(LogOf(p[1]))[1].outcome \in {"recorded", "platform"})
  /\ [][SkippedUnresolved]_vars

\* x was taken three times: an optional task whose download failed, the
\* task that resolved another version, and a task that was skipped
C29_Witness ==
  /\ pv.status = "ok"
  /\ Len(LogOf("x")) = 3
  /\ LogOf("x")[1].outcome = "download failed"
  /\ LogOf("x")[2].outcome = "recorded"
  /\ LogOf("x")[2].version # LogOf("x")[1].version
  /\ LogOf("x")[3].outcome = "visited"
  /\ <<"x", LogOf("x")[2].version[1]>> \in pv.plan

(***************************************************************************)
(* The fast path of cmd_install (Spec).                                    *)
(***************************************************************************)
\* an install without specs and without the flag error starts
PlainInstallStarts ==
  /\ pc = "idle"
  /\ ncmds' = ncmds + 1
  /\ manifest' = manifest
  /\ \/ pc' # "idle" /\ Len(run'.specs) = 0
     \/ /\ pc' = "idle"
        /\ last'.kind = "install"
        /\ Len(last'.specs) = 0
        /\ last'.err # "flags"

\* the lockfile as loaded and as synced with the manifest
LoadedLock == IF lockDisk.exists THEN lockDisk.lock ELSE IF legacy THEN LegacyLock ELSE DefaultLock
SyncedLock == sync_from_manifest(LoadedLock, manifest')

NoRootAdded == RootDeclared(SyncedLock) \ RootDeclared(LoadedLock) = {}
DeclaredLockedAndCached ==
  \A n \in Declared(manifest') :
    /\ Has(SyncedLock, Key(n))
    /\ SyncedLock[Key(n)].version # None
    /\ n \in cache
AlreadyUpToDate == pc' = "idle" /\ last'.path = "noop"
FastPathTaken == pc' = "materialize" /\ run'.path = "fast"
FastPathDue == PlainInstallStarts /\ NoRootAdded /\ DeclaredLockedAndCached /\ ~AlreadyUpToDate

\* the plan holds the store entries the lockfile names, and nothing was
\* resolved or fetched
PlanFromLock ==
  /\ cache' = cache
  /\ store' = store
  /\ \A n \in DOMAIN run'.plan :
       /\ Has(run'.lock, Key(n))
       /\ run'.plan[n] = load_entry(store, run'.lock[Key(n)].store_key)

\* no entry of the lockfile is out of reach of the root, and no directory
\* of a dropped entry is left
UnreachablePruned ==
  /\ prune_unreachable(run'.lock).removed = {}
  /\ \A n \in nm'.dirs : n \in RegistryNames => Has(run'.lock, Key(n))

\* the declared names and what their lockfile entries depend on, to any depth
RECURSIVE DepClosure(_, _)
DepClosure(lk, S) ==
  LET more == S \cup UNION {lk[Key(n)].dependencies : n \in {x \in S : Has(lk, Key(x))}}
  IN IF more = S THEN S ELSE DepClosure(lk, more)

\* every needed package can be taken from the lockfile, the cache and the store
Reconstructible ==
  \A n \in DepClosure(SyncedLock, Declared(manifest')) :
    /\ Has(SyncedLock, Key(n))
    /\ SyncedLock[Key(n)].version # None
    /\ SyncedLock[Key(n)].integrity # NoneT
    /\ n \in cache
    /\ entry_loadable(store, SyncedLock[Key(n)].store_key)

\* C31: an install without specs, with no root added and with a lockfile
\* entry, a version and a cached tarball for every declared name takes the
\* fast path: nothing is resolved or fetched, the plan is built from the
\* lockfile and the store entries at hand, the entries out of reach of the
\* root are pruned with their directories, and the plan goes to the linker.
C31_FastPath ==
  [][FastPathDue => (FastPathTaken /\ PlanFromLock /\ UnreachablePruned)]_vars

\* a root of the loaded lockfile is not declared any more
RootRemoved == RootDeclared(LoadedLock) \ Declared(manifest') # {}

\* what the code does: the fast path is taken exactly when, in addition, the
\* install is not already up to date and every package needed (the
\* declared names and the dependencies of their lockfile entries, to any
\* depth) has a lockfile entry with a version, an integrity and a store key
\* whose store entry is on disk, and a cached tarball; the entries out of
\* reach are pruned when a root was removed
C31_FastPathWhenReconstructible ==
  [][(PlainInstallStarts /\ NoRootAdded /\ ~AlreadyUpToDate) =>
       /\ FastPathTaken <=> Reconstructible
       /\ FastPathTaken => (PlanFromLock /\ (RootRemoved => UnreachablePruned))]_vars

\* a fast install after a root was dropped: its entry is gone and the
\* packages that stay are planned
C31_Witness ==
  /\ pc = "materialize"
  /\ run.path = "fast"
  /\ DOMAIN run.plan # {}
  /\ DOMAIN run.lock # DOMAIN run.pre.lockDisk.lock
  /\ RootDeclared(run.pre.lockDisk.lock) \ Declared(manifest) # {}

(***************************************************************************)
(* Packages that exclude the host and are not optional (Spec).             *)
(***************************************************************************)
Excluded(n) == ~platform_supported(PkgOs(world, n), PkgCpu(world, n))

\* the names a finished install had to install whatever the platform: the
\* dependencies and devDependencies of the root and, to any depth, the
\* dependencies of their lockfile entries
Required ==
  DepClosure(last.post.lockDisk.lock,
             last.post.manifest.dependencies \cup last.post.manifest.dev_dependencies)

InstallSucceeded == last.kind = "install" /\ last.status = "ok" /\ last.path \in {"fast", "full"}

\* after a successful install a required package that excludes the host has
\* its directory, its store entry and a lockfile entry with the os list
ExcludedInstalled ==
  InstallSucceeded =>
    \A n \in Required :
      Excluded(n) =>
        /\ n \in last.post.nm.dirs
        /\ Has(last.post.lockDisk.lock, Key(n))
        /\ last.post.lockDisk.lock[Key(n)].os = PkgOs(world, n)
        /\ last.post.lockDisk.lock[Key(n)].cpu_arch = PkgCpu(world, n)
        /\ entry_loadable(store, last.post.lockDisk.lock[Key(n)].store_key)

\* C32: a dependency that is not optional and whose os or cpu list excludes
\* the host is installed all the same, with a store entry, a directory and
\* a lockfile entry that records the lists; no install aborts because of
\* the mismatch, whatever the kind of the package.
C32_ExcludedStillInstalled ==
  /\ last.err # "platform"
  /\ ExcludedInstalled

\* the registry package a, a root dependency that excludes the host, was
\* installed
C32_RegistryExcludedInstalled ==
  /\ InstallSucceeded
  /\ "a" \in Required
  /\ Excluded("a")
  /\ "a" \in last.post.nm.dirs

(***************************************************************************)
(* C33: the graph hash of a package is a function of the set of            *)
(* fingerprints of its contributing immediate dependencies.                *)
(***************************************************************************)
\* the immediate dependencies of n that contribute a fingerprint
ContribDeps(lk, n) == {d \in GraphNames : <<n, d>> \in Contributing(lk)}

\* the store key of n as a function of the lockfile graph alone
RECURSIVE KeyFor(_, _)
FingerprintSet(lk, n) ==
  {[name |-> d, version |-> lk[Key(d)].version, store_key |-> KeyFor(lk, d)] :
     d \in ContribDeps(lk, n)}

KeyFor(lk, n) ==
  StoreKeyOf(n, lk[Key(n)].version,
             GraphHashOf(CHOOSE o \in Orderings(FingerprintSet(lk, n)) : TRUE))

FingerprintsPlanned == pv.stage \in {"planned", "linked"} /\ pv.err = None

\* C33: the graph hash of every fingerprinted package is the hash of the set
\* of (name, version, store key) triples of its contributing immediate
\* dependencies, whichever order the triples are handed over in; it is the
\* same whether the entries carry an integrity or not; and a peer marked
\* optional that has no versioned entry is no member of the set
C33_GraphHashOfDependencySet ==
  FingerprintsPlanned =>
    \A n \in DOMAIN pv.plan :
      /\ \A o \in Orderings(FingerprintSet(pv.lk, n)) :
           /\ pv.plan[n].graph_hash = GraphHashOf(o)
           /\ pv.plan[n].store_key = compute_graph_hash(n, pv.lk[Key(n)].version, o).store_key
      /\ \A d \in pv.lk[Key(n)].peer_optional :
           (~Has(pv.lk, Key(d)) \/ pv.lk[Key(d)].version = None)
             => d \notin {f.name : f \in FingerprintSet(pv.lk, n)}
                /\ d \notin {pv.plan[n].dependencies[i].name :
                                i \in 1..Len(pv.plan[n].dependencies)}

\* C33: as stated, with "not installed" read as "has no install instance":
\* a peer marked optional that is no instance is no member of the
\* dependencies the graph hash is computed from
C33_UninstalledPeerContributesNothing ==
  FingerprintsPlanned =>
    \A n \in DOMAIN pv.plan :
      \A d \in pv.lk[Key(n)].peer_optional \ pv.inst :
        d \notin {pv.plan[n].dependencies[i].name :
                     i \in 1..Len(pv.plan[n].dependencies)}

\* the lockfile as the traversal and the pruning leave it: c is the optional
\* dependency of the installed b, skipped for the platform, and the optional
\* peer of the installed a
C33_SkippedOptionalIsPeer ==
  /\ FingerprintsPlanned
  /\ pv.inst = {"a", "b"}
  /\ pv.lk[Key("a")].peer_optional = {"c"}
  /\ Has(pv.lk, Key("c"))
  /\ "c" \in pv.lk[Key("b")].optional_dependencies
  /\ ~platform_supported(pv.lk[Key("c")].os, pv.lk[Key("c")].cpu_arch)
  /\ \E i \in 1..Len(pv.plan["a"].dependencies) : pv.plan["a"].dependencies[i].name = "c"

\* a has two contributing dependencies and the entries carry an integrity
C33_Witness ==
  /\ FingerprintsPlanned
  /\ "a" \in DOMAIN pv.plan
  /\ ContribDeps(pv.lk, "a") = {"b", "c"}
  /\ pv.plan["a"].integrity # NoneT

\* a's optional peer c has no entry and a's hash is that of b alone
C33_AbsentPeerWitness ==
  /\ FingerprintsPlanned
  /\ "a" \in DOMAIN pv.plan
  /\ pv.lk[Key("a")].peer_optional = {"c"}
  /\ ~Has(pv.lk, Key("c"))
  /\ ContribDeps(pv.lk, "a") = {"b"}

(***************************************************************************)
(* Installer::materialize on one destination (installer/mod.rs).           *)
(* The destination is a record [kind, entries]: kind is "absent", "file",  *)
(* "dir", or a symbolic link by what it points to; entries maps the        *)
(* relative paths below a directory to [type, data, linked].  The store    *)
(* entry's package tree maps relative paths to [type, data].               *)
(***************************************************************************)
RelPaths == {"package.json", "index.js", "lib", "lib/util.js", "extra.txt"}

ParentOf(p) == IF p = "lib/util.js" THEN <<"lib">> ELSE << >>

DirEntry == [type |-> "dir", data |-> None, linked |-> FALSE]
FileEntry(data, linked) == [type |-> "file", data |-> data, linked |-> linked]

Node(kind, entries) == [kind |-> kind, entries |-> entries]
Absent == Node("absent", << >>)

\* the files of a function over a set of paths, directories where the tree
\* has one
TreeOver(paths, data) ==
  [p \in paths |-> IF p = "lib" THEN [type |-> "dir", data |-> None]
                   ELSE [type |-> "file", data |-> data]]

PackageTrees ==
  {TreeOver(ps, "new") : ps \in {{"package.json"}, {"package.json", "index.js"},
                                 {"package.json", "lib", "lib/util.js"},
                                 {"package.json", "lib"}}}

\* what may lie at the destination before: nothing, an older install with or
\* without extra files, a file, a link
PriorDirs ==
  {Node("dir", [p \in ps |-> IF p = "lib" THEN DirEntry ELSE FileEntry("old", FALSE)]) :
     ps \in {{}, {"package.json"}, {"package.json", "extra.txt"},
             {"package.json", "index.js", "lib", "lib/util.js"},
             {"package.json", "lib", "lib/util.js", "extra.txt"}}}

PriorNodes ==
  {Absent, Node("file", << >>), Node("symlink to dir", << >>),
   Node("symlink to file", << >>), Node("dangling symlink", << >>)} \cup PriorDirs

\* Path::exists follows links; symlink_metadata does not
path_exists(n) == n.kind \in {"file", "dir", "symlink to dir", "symlink to file"}
symlink_metadata_ok(n) == n.kind # "absent"
is_file(n) == n.kind \in {"file", "symlink to file"}

\* fs::remove_dir_all: removes a directory with its content, removes a link
\* itself, fails on a file; fs::remove_file removes a file or a link
remove_dir_all_keeping(n, removable) == [ok |-> removable, node |-> n]

remove_dir_all(n, removable) ==
  IF n.kind \in {"dir", "symlink to dir", "symlink to file", "dangling symlink"} /\ removable
  THEN [ok |-> TRUE, node |-> Absent]
  ELSE [ok |-> FALSE, node |-> n]

remove_file(n, removable) ==
  IF n.kind \in {"file", "symlink to dir", "symlink to file", "dangling symlink"} /\ removable
  THEN [ok |-> TRUE, node |-> Absent]
  ELSE [ok |-> FALSE, node |-> n]

\* materialize, lines 105-114: the removal of what is at the destination
remove_existing(n, removable) ==
  IF path_exists(n) \/ symlink_metadata_ok(n)
  THEN LET r == remove_dir_all(n, removable)
       IN IF r.ok THEN r
          ELSE IF is_file(r.node) THEN remove_file(r.node, removable)
          ELSE [ok |-> FALSE, node |-> r.node]
  ELSE [ok |-> TRUE, node |-> n]

\* fs::create_dir_all(dest/rel) and the creation of a file's parents
WithDirs(n, dirs) ==
  Node("dir", [p \in (DOMAIN n.entries) \cup dirs |->
                 IF p \in DOMAIN n.entries THEN n.entries[p] ELSE DirEntry])

WithFile(n, p, e) ==
  Node("dir", [q \in (DOMAIN n.entries) \cup {p} |-> IF q = p THEN e ELSE n.entries[q]])

AsSet(o) == {o[i] : i \in 1..Len(o)}

\* one entry of the walk of copy_tree_only (146-161) and link_or_copy_tree
\* (168-188): a directory is created, a file is linked or copied after its
\* parent was created
walk_entry(n, tree, p, mode, linkable) ==
  IF tree[p].type = "dir" THEN [node |-> WithDirs(n, {p}), linked |-> TRUE]
  ELSE LET made == WithDirs(n, AsSet(ParentOf(p)))
           link == mode = "link" /\ linkable
       IN [node |-> WithFile(made, p, FileEntry(tree[p].data, link)),
           linked |-> mode = "copy" \/ link]

MaterializeInputs ==
  {[prior |-> n, tree |-> t, mode |-> m, linkable |-> l, removable |-> r] :
     n \in PriorNodes, t \in PackageTrees, m \in {"copy", "link"},
     l \in BOOLEAN, r \in BOOLEAN}

MaterializeStart(in) ==
  [in |-> in, dest |-> in.prior, walked |-> {}, all_linked |-> TRUE,
   stage |-> "start", result |-> None]

\* lines 105-117
MaterializeRemove ==
  /\ pv.stage = "start"
  /\ LET r == remove_existing(pv.dest, pv.in.removable)
     IN pv' = [pv EXCEPT !.dest = r.node,
                         !.stage = IF r.ok THEN "walk" ELSE "failed"]
  /\ UNCHANGED <<ivars, sv, cv>>

\* WalkDir yields a directory before what it holds, siblings in any order
MaterializeWalk ==
  /\ pv.stage = "walk"
  /\ \E p \in (DOMAIN pv.in.tree) \ pv.walked :
       /\ AsSet(ParentOf(p)) \subseteq pv.walked
       /\ LET r == walk_entry(pv.dest, pv.in.tree, p, pv.in.mode, pv.in.linkable)
          IN pv' = [pv EXCEPT !.dest = r.node, !.walked = @ \cup {p},
                              !.all_linked = @ /\ r.linked]
  /\ UNCHANGED <<ivars, sv, cv>>

\* lines 119-131
MaterializeReturn ==
  /\ pv.stage = "walk"
  /\ pv.walked = DOMAIN pv.in.tree
  /\ pv' = [pv EXCEPT !.stage = "done",
                      !.result = IF pv.in.mode = "link" /\ pv.all_linked
                                 THEN "link" ELSE "copy"]
  /\ UNCHANGED <<ivars, sv, cv>>

MaterializeNext == MaterializeRemove \/ MaterializeWalk \/ MaterializeReturn

MaterializeInit ==
  /\ InstallParked /\ StoreParked /\ CacheParked
  /\ \E in \in MaterializeInputs : pv = MaterializeStart(in)

SpecMaterialize == MaterializeInit /\ [][MaterializeNext]_vars

(***************************************************************************)
(* C34: after materialize the destination holds exactly the package tree.  *)
(***************************************************************************)
ExactlyTheTree(n, tree) ==
  /\ n.kind = "dir"
  /\ DOMAIN n.entries = DOMAIN tree
  /\ \A p \in DOMAIN tree : /\ n.entries[p].type = tree[p].type
                            /\ n.entries[p].data = tree[p].data

\* C34: when materialize has returned, the destination is a directory that
\* holds the paths of the store entry's package tree with the tree's
\* content and nothing else, whatever was at the destination before
C34_ExactlyStoreTree ==
  pv.stage = "done" => ExactlyTheTree(pv.dest, pv.in.tree)

\* an older install with an extra file and a file the new tree lacks was at
\* the destination
C34_Witness ==
  /\ pv.stage = "done"
  /\ pv.in.prior.kind = "dir"
  /\ {"extra.txt", "lib/util.js"} \subseteq DOMAIN pv.in.prior.entries
  /\ "lib/util.js" \notin DOMAIN pv.in.tree

\* a link stood in place of the directory
C34_LinkReplaced ==
  /\ pv.stage = "done"
  /\ pv.in.prior.kind = "symlink to dir"

(***************************************************************************)
(* load applied to files of every wire version and to JSON documents.      *)
(* A file of wire version 1 holds no os / cpu lists and no store-link      *)
(* fields, a file of version 2 no store-link fields (the readers of        *)
(* parse_packages_section, lockfile.rs:334-349).                           *)
(***************************************************************************)
WireVersions == {0, 1, 2, 3, 4, 259, 65535}

WireEntry(name, entry, wire) ==
  write_string(name)
    \o write_option_string(entry.version)
    \o write_option_string(entry.integrity)
    \o write_option_string(entry.resolved)
    \o write_string_map(entry.dependencies)
    \o write_string_map(entry.dev_dependencies)
    \o write_string_map(entry.optional_dependencies)
    \o write_string_map(entry.peer_dependencies)
    \o write_peer_meta_map(entry.peer_dependencies_meta)
    \o (IF wire = 1 THEN << >>
        ELSE write_string_list(entry.os) \o write_string_list(entry.cpu_arch))
    \o (IF wire \in {1, 2} THEN << >>
        ELSE write_option_string(entry.store_key)
               \o write_option_string(entry.content_hash)
               \o write_option_string(entry.link_mode)
               \o write_option_string(entry.store_path))

WirePackages(packages, ks, wire) ==
  write_len(Len(ks))
    \o Flatten([i \in 1..Len(ks) |-> WireEntry(ks[i], packages[ks[i]], wire)])

WireFile(lf, wire) ==
  LET buf == WirePackages(lf.packages, SortedKeys(DOMAIN lf.packages), wire)
  IN LOCKFILE_MAGIC \o write_u16(wire) \o write_u16(0) \o write_u32(lf.format)
       \o write_len(Len(buf)) \o buf \o write_u32(0)

\* what a file of the wire version can hold of an entry
HeldBy(entry, wire) ==
  IF wire = 1
  THEN [entry EXCEPT !.os = << >>, !.cpu_arch = << >>, !.store_key = NoneT,
                     !.content_hash = NoneT, !.link_mode = NoneT, !.store_path = NoneT]
  ELSE IF wire = 2
  THEN [entry EXCEPT !.store_key = NoneT, !.content_hash = NoneT,
                     !.link_mode = NoneT, !.store_path = NoneT]
  ELSE entry

RECURSIVE Decimal(_)
Decimal(n) == IF n < 10 THEN <<48 + n>> ELSE Decimal(n \div 10) \o <<48 + (n % 10)>>

JsonText(format, pad) == pad \o JsonPrefix \o Decimal(format) \o <<125>>

WireInputs ==
  {[kind |-> "binary", lf |-> lf, wire |-> w, data |-> WireFile(lf, w)] :
     lf \in Lockfiles, w \in WireVersions}
  \cup {[kind |-> "json", lf |-> [format |-> f, packages |-> << >>], wire |-> 0,
         data |-> JsonText(f, pad)] : f \in Formats, pad \in {<< >>, <<32, 10>>}}
  \cup {[kind |-> "text", lf |-> NoLockfile, wire |-> 0, data |-> d] :
         d \in {<< >>, <<112, 97, 99, 109>>, JsonPrefix}}

WireStart(in) == [in |-> in, loaded |-> NoneT, decoded |-> NoneT]

\* load (595-615)
WireLoad ==
  /\ pv.loaded = NoneT
  /\ pv' = [pv EXCEPT !.loaded = <<load(pv.in.data)>>]
  /\ UNCHANGED <<ivars, sv, cv>>

\* decode_current_binary on its own (375-408)
WireDecode ==
  /\ pv.decoded = NoneT
  /\ pv' = [pv EXCEPT !.decoded = <<decode_current_binary(pv.in.data)>>]
  /\ UNCHANGED <<ivars, sv, cv>>

WireNext == WireLoad \/ WireDecode

WireInit ==
  /\ InstallParked /\ StoreParked /\ CacheParked
  /\ \E in \in WireInputs : pv = WireStart(in)

SpecWire == WireInit /\ [][WireNext]_vars

(***************************************************************************)
(* C35: the wire versions and formats load accepts.                        *)
(***************************************************************************)
\* C35: load returns no lockfile for a file with the magic and a wire
\* version other than 1, 2, 3, and none for an input (binary or JSON) whose
\* format is 0; for a well-formed file of wire version 1, 2 or 3 with a
\* nonzero format it returns the lockfile the file holds, with os and cpu
\* empty for version 1 and the four store-link fields absent for 1 and 2
C35_LoadAccepts ==
  pv.loaded # NoneT =>
    /\ (pv.in.kind = "binary" /\ pv.in.wire \notin {1, 2, 3}) => ~pv.loaded[1].ok
    /\ (pv.in.kind \in {"binary", "json"} /\ pv.in.lf.format = 0) => ~pv.loaded[1].ok
    /\ (pv.in.kind = "binary" /\ pv.in.wire \in {1, 2, 3} /\ pv.in.lf.format # 0) =>
         /\ pv.loaded[1].ok
         /\ pv.loaded[1].lf.format = pv.in.lf.format
         /\ DOMAIN pv.loaded[1].lf.packages = DOMAIN pv.in.lf.packages
         /\ \A k \in DOMAIN pv.in.lf.packages :
              pv.loaded[1].lf.packages[k] = HeldBy(pv.in.lf.packages[k], pv.in.wire)
    /\ (pv.in.kind = "json" /\ pv.in.lf.format # 0) =>
         pv.loaded[1].ok /\ pv.loaded[1].lf.format = pv.in.lf.format

\* a file of wire version 1 with an entry that has os and store-link fields
\* was loaded, and so was one with format 0 that decodes
C35_Witness ==
  /\ pv.loaded # NoneT
  /\ pv.in.kind = "binary" /\ pv.in.wire = 1 /\ pv.in.lf.format # 0
  /\ \E k \in DOMAIN pv.in.lf.packages : pv.in.lf.packages[k] = LinkedEntry

C35_FormatZeroDecodes ==
  /\ pv.loaded # NoneT /\ pv.decoded # NoneT
  /\ pv.in.kind = "binary" /\ pv.in.lf.format = 0 /\ pv.in.wire = 2
  /\ pv.decoded[1].ok /\ ~pv.loaded[1].ok

(***************************************************************************)
(* canonicalize_npm_range and pick_version on the ranges of the form N.M.  *)
(***************************************************************************)
MinorPairs == {<<0, 2>>, <<1, 0>>, <<1, 2>>, <<2, 1>>, <<3, 9>>, <<1, 10>>}
MinorPads == {<< >>, <<" ">>}

MinorText(mm) == to_string(mm[1]) \o <<".">> \o to_string(mm[2])

\* the comparators ">=N.M.0" and "<N.(M+1).0"
MinorRange(mm) ==
  <<Cmp("GreaterEq", mm[1], <<mm[2]>>, <<0>>, << >>),
    Cmp("Less", mm[1], <<mm[2] + 1>>, <<0>>, << >>)>>

MinorInit ==
  /\ InstallParked /\ StoreParked /\ CacheParked
  /\ \E cands \in CandidateSets, mm \in MinorPairs, pad \in MinorPads :
       pv = ResolverStart(cands, <<[kind |-> "minor", text |-> pad \o MinorText(mm) \o pad,
                                    ref |-> MinorRange(mm)]>>)

SpecMinor == MinorInit /\ [][ResolverNext]_vars

(***************************************************************************)
(* C36: the canonical form of N.M.                                         *)
(***************************************************************************)
\* C36: for an input N.M canonicalize returns ">=N.M.0, <N.(M+1).0", and
\* exactly the versions with major N and minor M satisfy what it returned
C36_MajorMinorExpanded ==
  pv.canon # NoneT =>
    /\ pv.canon[1].text = CommaJoined(pv.alts[1].ref)
    /\ pv.canon[1].req.ok
    /\ \A v \in DOMAIN pv.versions :
         matches(pv.canon[1].req.v, v)
           <=> (v.major = pv.alts[1].ref[1].major /\ <<v.minor>> = pv.alts[1].ref[1].minor)

\* what the code returns for N.M: the input itself, trimmed, which the
\* request parser reads as the caret comparator ^N.M
C36_MajorMinorUnchanged ==
  pv.canon # NoneT =>
    /\ pv.canon[1].text = trim(pv.range)
    /\ pv.canon[1].req.ok
    /\ pv.canon[1].req.v = <<Cmp("Caret", pv.alts[1].ref[1].major,
                                 pv.alts[1].ref[1].minor, NoneT, << >>)>>

\* "1.2" with the candidates 1.0.0, 1.2.0 and 1.5.0: 1.5.0 is picked
C36_LaterMinorPicked ==
  /\ pv.canon # NoneT /\ pv.picked # NoneT
  /\ pv.range = <<"1", ".", "2">>
  /\ pv.picked[1].ok
  /\ pv.picked[1].version = V(1, 5, 0, << >>)

(***************************************************************************)
(* C37: the order of the ensure_entry calls of the store plan.             *)
(***************************************************************************)
\* C37: ensure_entry is called for a name only after it was called (and has
\* returned) for every dependency that contributes to the name's
\* fingerprint, it is called at most once for a name, and a dependency's
\* store key in a fingerprint is the one of the dependency's own entry
C37_LeavesFirstOnce ==
  pv.stage # "start" =>
    /\ \A i, j \in 1..Len(pv.calls) : pv.calls[i] = pv.calls[j] => i = j
    /\ \A i \in 1..Len(pv.calls) :
         \A d \in ContribDeps(pv.lk, pv.calls[i]) :
           \E j \in 1..(i - 1) : pv.calls[j] = d
    /\ \A n \in DOMAIN pv.plan :
         \A k \in 1..Len(pv.plan[n].dependencies) :
           /\ pv.plan[n].dependencies[k].store_key
                = KeyFor(pv.lk, pv.plan[n].dependencies[k].name)
           /\ pv.plan[n].dependencies[k].name \in DOMAIN pv.plan
                => pv.plan[n].dependencies[k].store_key
                     = pv.plan[pv.plan[n].dependencies[k].name].store_key

\* a depends on b and on c, b on c: c is requested three times and its
\* entry is ensured once, before b's, and a's comes last
C37_Witness ==
  /\ FingerprintsPlanned
  /\ pv.inst = {"a", "b", "c"}
  /\ {"b", "c"} \subseteq ContribDeps(pv.lk, "a")
  /\ "c" \in ContribDeps(pv.lk, "b")
  /\ pv.calls = <<"c", "b", "a">>

(***************************************************************************)
(* SpecLoop: the queue of the traversal loop of cmd_install on drawn       *)
(* dependency graphs over the names a, b, c, cycles included.  Each name   *)
(* has one version; what the resolution of a name meets (no matching       *)
(* version, a platform the package excludes, a download that fails) is     *)
(* drawn with the graph.                                                   *)
(*   pv = [deps, opt, peer, flaw, queue, visited, instances, pending,      *)
(*         expanded, skipped, status]                                      *)
(* expanded lists the names whose children were enqueued, in order.        *)
(***************************************************************************)
LoopNames == {"a", "b", "c"}
DepEdges == {<<"a", "b">>, <<"b", "a">>, <<"b", "c">>}
OptEdges == {<<"b", "c">>, <<"c", "a">>}
PeerEdges == {<<"c", "b">>, <<"a", "a">>}
Flaws == {"unresolvable", "excluded", "undownloadable"}
LoopSeeds ==
  { <<[name |-> "a", optional_root |-> FALSE]>>,
    <<[name |-> "a", optional_root |-> TRUE]>>,
    <<[name |-> "c", optional_root |-> FALSE]>>,
    <<[name |-> "b", optional_root |-> TRUE], [name |-> "a", optional_root |-> FALSE]>> }

ChildrenOf(E, n) == SortedNames({e[2] : e \in {x \in E : x[1] = n}})
TasksFor(names, flag) == [i \in 1..Len(names) |-> [name |-> names[i], optional_root |-> flag]]

\* a step that leaves the task at the head of the queue
SkipTask_keeping(st) == st

\* `continue`: the task was popped and nothing else happens (444-446)
SkipTask(st) == [st EXCEPT !.queue = Tail(@), !.skipped = @ + 1]

\* write_lock_entry, instances.insert, visited_name_version.insert and the
\* three loops that enqueue the children (1140-1187)
ExpandTask(st, t) ==
  [st EXCEPT !.visited = @ \cup {t.name},
             !.instances = @ \cup {t.name},
             !.expanded = Append(@, t.name),
             !.queue = Tail(@) \o TasksFor(ChildrenOf(st.deps, t.name), t.optional_root)
                               \o TasksFor(ChildrenOf(st.opt, t.name), TRUE)
                               \o TasksFor(ChildrenOf(st.peer, t.name), FALSE)]

Flawed(st, t, kind) == st.flaw = <<t.name, kind>>

\* one iteration of the loop
LoopOne(st, t) ==
  IF t.name \in st.visited THEN SkipTask(st)
  ELSE IF Flawed(st, t, "unresolvable")
  THEN IF t.optional_root THEN SkipTask(st) ELSE [st EXCEPT !.status = "err"]
  ELSE IF Flawed(st, t, "excluded") /\ t.optional_root
  THEN [SkipTask(st) EXCEPT !.visited = @ \cup {t.name}]
  ELSE IF Flawed(st, t, "undownloadable")
  THEN IF t.optional_root THEN SkipTask(st)
       ELSE [ExpandTask(st, t) EXCEPT !.pending = @ \cup {t.name}]
  ELSE ExpandTask(st, t)

LoopStart(deps, opt, peer, flaw, seeds) ==
  [deps |-> deps, opt |-> opt, peer |-> peer, flaw |-> flaw, queue |-> seeds,
   visited |-> {}, instances |-> {}, pending |-> {}, expanded |-> << >>,
   skipped |-> 0, status |-> "run"]

\* while let Some(task) = queue.pop_front()
LoopTask ==
  /\ pv.status = "run"
  /\ Len(pv.queue) > 0
  /\ pv' = LoopOne(pv, Head(pv.queue))
  /\ UNCHANGED <<ivars, sv, cv>>

\* the loop has ended: the pending downloads, then the rest of the install
LoopFinish ==
  /\ pv.status = "run"
  /\ Len(pv.queue) = 0
  /\ pv' = [pv EXCEPT !.status = IF pv.pending = {} THEN "ok" ELSE "err"]
  /\ UNCHANGED <<ivars, sv, cv>>

LoopNext == LoopTask \/ LoopFinish

LoopInit ==
  /\ InstallParked /\ StoreParked /\ CacheParked
  /\ \E deps \in SUBSET DepEdges, opt \in SUBSET OptEdges, peer \in SUBSET PeerEdges,
        flaw \in {<< >>} \cup (LoopNames \X Flaws), seeds \in LoopSeeds :
       pv = LoopStart(deps, opt, peer, flaw, seeds)

SpecLoop == LoopInit /\ [][LoopNext]_vars

\* the loop and the code after it are sequential code: an iteration that
\* can run does run
SpecLoopLive == SpecLoop /\ WF_vars(LoopTask) /\ WF_vars(LoopFinish)

(***************************************************************************)
(* C38: the traversal loop terminates.                                     *)
(***************************************************************************)
\* C38: on every drawn graph, with cycles through ordinary, optional and
\* peer edges, the loop ends (the queue empties, or the install fails); the
\* children of a name are enqueued at most once
C38_TraversalTerminates ==
  /\ <>(pv.status # "run")
  /\ [](\A i, j \in 1..Len(pv.expanded) : pv.expanded[i] = pv.expanded[j] => i = j)
  /\ [](pv.status = "ok" => Len(pv.queue) = 0)

\* the cycles a -> b -> a (ordinary edges) and b -> c -> b (an optional and
\* a peer edge) were walked and the loop has ended
C38_Witness ==
  /\ pv.status = "ok"
  /\ {<<"a", "b">>, <<"b", "a">>} \subseteq pv.deps
  /\ <<"b", "c">> \in pv.opt /\ <<"c", "b">> \in pv.peer
  /\ pv.instances = {"a", "b", "c"}
  /\ pv.skipped >= 2

(***************************************************************************)
(* C39: the instances keep their lockfile entries through the pruning.     *)
(***************************************************************************)
\* the downloads have ended well and the pruning is about to run
BeforePruning ==
  /\ pc = "download"
  /\ Len(run.specs) = 0
  /\ \A n \in DOMAIN run.dl : run.dl[n] = "ok"

PrunedLock == prune_unreachable(Backfill(run.lock, run.pending, run.got, 1)).lock

\* C39: in an install without package arguments, every instance of the
\* traversal has a lockfile entry with a version after the pruning of the
\* unreachable entries, so the store plan finds an entry for each of them
C39_InstancesKeepEntries ==
  BeforePruning =>
    \A n \in run.instances :
      Has(PrunedLock, Key(n)) /\ PrunedLock[Key(n)].version # None

\* the same statement for the instances that are not reached through the
\* devDependencies of a workspace member only
C39_ReachableInstancesKeepEntries ==
  BeforePruning =>
    \A n \in run.instances \ (WorkspaceDevDependencies \ WorldReach(Declared(manifest) \cap RegistryNames, {})) :
      Has(PrunedLock, Key(n)) /\ PrunedLock[Key(n)].version # None

\* the devDependency of the workspace member is an instance and the pruning
\* removes its entry
C39_DevEntryPruned ==
  /\ BeforePruning
  /\ "c" \in run.instances
  /\ Has(run.lock, Key("c"))
  /\ ~Has(PrunedLock, Key("c"))

(***************************************************************************)
(* C40: the non-optional dependencies of the installed packages.           *)
(***************************************************************************)
DependenciesInstalled ==
  \A e \in pv.deps : e[1] \in pv.instances => e[2] \in pv.instances

\* C40: after a successful install every name in the dependencies map of an
\* installed package is installed too, in whatever order the tasks for the
\* name were dequeued
C40_DependenciesInstalled ==
  pv.status = "ok" => DependenciesInstalled

\* the same statement for the installs in which every resolution finds a
\* version the platform supports and every download succeeds
C40_InstalledWhenNothingSkipped ==
  (pv.status = "ok" /\ pv.flaw = << >>) => DependenciesInstalled

\* a is installed from an optional task; its dependency b inherits the flag,
\* its download fails and it is given up, and the install succeeds without b
C40_InheritedFlagDropped ==
  /\ pv.status = "ok"
  /\ pv.flaw = <<"b", "undownloadable">>
  /\ <<"a", "b">> \in pv.deps
  /\ "a" \in pv.instances
  /\ "b" \notin pv.visited

\* a was dequeued first as the optional dependency of c and skipped for the
\* platform; the later task for a, the dependency of the installed b, was
\* skipped as visited, and the install succeeded without a
C40_SkippedThenRequired ==
  /\ pv.status = "ok"
  /\ pv.flaw = <<"a", "excluded">>
  /\ <<"c", "a">> \in pv.opt /\ <<"b", "a">> \in pv.deps
  /\ "b" \in pv.instances
  /\ "a" \in pv.visited \ pv.instances

\* a was dequeued first as an optional task whose download failed and then
\* as the dependency of b: the second task is not skipped (the install
\* fails on the download)
C40_DroppedThenRequired ==
  /\ pv.status = "err"
  /\ pv.flaw = <<"a", "undownloadable">>
  /\ <<"c", "a">> \in pv.opt /\ <<"b", "a">> \in pv.deps
  /\ "a" \in pv.pending
  /\ pv.skipped >= 1

====
